---- MODULE Spec2Model ----
(***************************************************************************)
(* SMSNotifier (src/main.py): the heartbeat-failure aggregation, the       *)
(* notification gate and the PushPlus delivery loop, as a state machine.   *)
(*                                                                         *)
(* The plugin runs on one asyncio event loop: a coroutine runs without     *)
(* interruption from one await to the next, so each action below is one    *)
(* such uninterrupted stretch of a handler.  Time is the value time.time() *)
(* returns; it advances only between the stretches (action Tick).          *)
(***************************************************************************)
EXTENDS Integers, Sequences, FiniteSets, TLC

(***************************************************************************)
(* Program constants.                                                      *)
(***************************************************************************)
Window == 300
ResendInterval == 3600
heartbeat_threshold == 3
retry_times == 3
retry_interval == 60
SleepInterval == 2
LastLines == 10
EvidenceWindow == 300
ReminderInterval == 3600

(***************************************************************************)
(* Bounds of the model.                                                    *)
(***************************************************************************)
MaxTime == 3600
MaxTasks == 1
MaxRecord == 4
MaxInFlight == 2
MaxCommands == 2
MaxAdminTime == 300
MaxKept == 2
MaxLines == 11
MaxCheckTime == 600

Ids == {"wxid_a", "wxid_b"}
NoWxid == ""
TimePoints ==
    {t \in {0, Window, 2 * Window, ResendInterval, ResendInterval + Window,
            ResendInterval + 2 * Window} : t <= MaxTime}
Outcomes == {"ok", "auth", "fail", "exc"}
Tasks == 1..MaxTasks

VARIABLES
    now,                      \* time.time()
    enable,                   \* self.enable
    users,                    \* self.users: wxid -> delivery target
    current_wxid,             \* self.current_wxid
    failure_count,            \* _check_api_heartbeat: failure_count
    last_notification_time,   \* _check_api_heartbeat: last_notification_time
    cb,                       \* the heartbeat_failure_callback tasks
    api,                      \* the _check_api_heartbeat task: its main loop
    cap,                      \* the capture_error_messages handler
    callback_current_wxid,    \* heartbeat_failure_callback.current_wxid
    accepted,                 \* the wxid whose notification the push service just accepted
    delivered,                \* wxid -> when the push service last accepted a notification for it
    trace,                    \* what the callbacks' delivery calls did
    pushplus_channel,         \* self.pushplus_channel
    title_template,           \* self.title_template
    offline_users,            \* self.offline_users
    notification_sent,        \* self.notification_sent
    check_task,               \* self.check_task
    test,                     \* the _send_test_message call of a command handler
    orphan,                   \* the callback tasks of an earlier _check_api_heartbeat call
    commands,                 \* how many commands have been handled
    reply,                    \* the command just handled, and what its sender was told
    polled,                   \* the response to GET /IsRunning just received
    lag,                      \* how long the poll loop has run on since enable became false
    pushplus_token,           \* self.pushplus_token
    self_retry_times,         \* self.retry_times, as config.toml has it
    mon,                      \* stderr_monitor.py: the process, its stdin and its stderr
    heartbeat_errors,         \* the lines of heartbeat_errors.txt
    bot,                      \* self.bot is there and set
    chk,                      \* the _check_loop task
    seen                      \* the config.toml loaded last, and the message just handled

vars == <<now, enable, users, current_wxid, failure_count, last_notification_time,
          cb, api, cap, callback_current_wxid, accepted, delivered, trace,
          pushplus_channel, title_template, offline_users, notification_sent,
          check_task, test, orphan, commands, reply, polled, lag, pushplus_token,
          self_retry_times, mon,
          heartbeat_errors, bot, chk, seen>>

\* The evidence log and the task that replays it.  self.bot is read by
\* _check_loop alone and is followed where that loop runs.
evidence == <<heartbeat_errors, bot, chk>>

\* The state of the plugin that only the command handlers write, and what
\* is kept to observe the commands and the poll loop.
plugin == <<pushplus_channel, title_template, offline_users, notification_sent,
            check_task, test, orphan, commands, pushplus_token,
            self_retry_times, mon, evidence>>
observed == <<reply, polled, lag, seen>>

\* The configuration, which no signal source writes.
config == <<enable, users, current_wxid>>

(***************************************************************************)
(* Python dicts as functions on the set of their keys.                     *)
(***************************************************************************)
EmptyDict == [k \in {} |-> 0]
Put(d, k, v) == [x \in (DOMAIN d) \cup {k} |-> IF x = k THEN v ELSE d[x]]
Del(d, k) == [x \in (DOMAIN d) \ {k} |-> d[x]]

(***************************************************************************)
(* _send_pushplus_notification: the retry loop.  A call is at its POST     *)
(* ("post"), in the sleep between two attempts ("sleep") or has returned   *)
(* ("ret", with its result).                                               *)
(***************************************************************************)
NoSend == [pc |-> "idle", retry |-> 0, result |-> FALSE]

\* The call returns False before its first attempt when the token is empty.
SendStart(tok) ==
    IF tok # "" /\ self_retry_times > 0
    THEN [pc |-> "post", retry |-> 0, result |-> FALSE]
    ELSE [pc |-> "ret", retry |-> 0, result |-> FALSE]

\* PostStep with a success reported on the last attempt whatever the response.
PostStepLastSucceeds(s, o) ==
    IF o = "ok" THEN [s EXCEPT !.pc = "ret", !.result = TRUE]
    ELSE IF o = "auth" THEN [s EXCEPT !.pc = "ret", !.result = FALSE]
    ELSE IF s.retry < retry_times - 1 THEN [s EXCEPT !.pc = "sleep"]
    ELSE [s EXCEPT !.pc = "ret", !.result = TRUE]

\* PostStep with the auth-invalid response retried like a generic failure.
PostStepRetryAuth(s, o) ==
    IF o = "ok" THEN [s EXCEPT !.pc = "ret", !.result = TRUE]
    ELSE IF s.retry < retry_times - 1 THEN [s EXCEPT !.pc = "sleep"]
    ELSE [s EXCEPT !.pc = "ret", !.result = FALSE]

\* PostStep with another attempt after every failed one.
PostStepNoLimit(s, o) ==
    IF o = "ok" THEN [s EXCEPT !.pc = "ret", !.result = TRUE]
    ELSE IF o = "auth" THEN [s EXCEPT !.pc = "ret", !.result = FALSE]
    ELSE [s EXCEPT !.pc = "sleep"]

PostStep(s, o) ==
    IF o = "ok" THEN [s EXCEPT !.pc = "ret", !.result = TRUE]
    ELSE IF o = "auth" THEN [s EXCEPT !.pc = "ret", !.result = FALSE]
    ELSE IF s.retry < self_retry_times - 1 THEN [s EXCEPT !.pc = "sleep"]
    ELSE [s EXCEPT !.pc = "ret", !.result = FALSE]

WakeStep(s) == [s EXCEPT !.pc = "post", !.retry = s.retry + 1]

(***************************************************************************)
(* heartbeat_failure_callback: the failure record and the gate.            *)
(***************************************************************************)
\* Prune with an entry of exactly the window's age dropped.
PruneStrict(rec, t) == SelectSeq(rec, LAMBDA x : t - x < Window)

Prune(rec, t) == SelectSeq(rec, LAMBDA x : t - x <= Window)

\* RecordFailure without the pruning.
RecordFailureNoPrune(fc, w, t) ==
    Put(fc, w, Append(IF w \in DOMAIN fc THEN fc[w] ELSE <<>>, t))

RecordFailure(fc, w, t) ==
    Put(fc, w, Prune(Append(IF w \in DOMAIN fc THEN fc[w] ELSE <<>>, t), t))

OverThreshold(fc, w) == Len(fc[w]) >= heartbeat_threshold

\* ResendAllowed with the interval's end excluded.
ResendAllowedStrict(lnt, w, t) == w \notin DOMAIN lnt \/ t - lnt[w] > ResendInterval

ResendAllowed(lnt, w, t) ==
    w \notin DOMAIN lnt \/ t - lnt[w] >= ResendInterval

(***************************************************************************)
(* The push service accepts a notification for w at time t.                *)
(***************************************************************************)
Accept(d, w, t) == Put(d, w, t)

(***************************************************************************)
(* The delivery calls in progress.                                         *)
(***************************************************************************)
InFlight ==
    Cardinality({t \in Tasks : cb[t].pc = "send"})
      + (IF api.pc = "send" THEN 1 ELSE 0) + (IF cap.pc = "send" THEN 1 ELSE 0)

\* The callback's bookkeeping after a successful delivery.
NotifiedAt(lnt, w, t) == Put(lnt, w, t)

\* ResetRecord that leaves the record as it is.
ResetRecordKeep(fc, w) == fc

ResetRecord(fc, w) == Put(fc, w, <<>>)

\* The callback's bookkeeping whatever the delivery call returned.
AfterSendAlways(success, old, new) == new

\* The callback writes its dicts when the delivery call returned True.
AfterSend(success, old, new) == IF success THEN new ELSE old

\* failed is the wxid whose callback's delivery call returned False, until
\* the next failure recorded for it; again is that wxid when the callback
\* that recorded the failure started another delivery call.
NoTrace == [cur |-> [t \in Tasks |-> <<>>], returned |-> FALSE, log |-> <<>>,
            result |-> FALSE, failed |-> NoWxid, again |-> NoWxid]

FreeTask == [pc |-> "free", wxid |-> NoWxid, current_time |-> 0, snd |-> NoSend]

NoMessage == [kind |-> "other", marker |-> "none", off |-> FALSE, err |-> FALSE,
              cw |-> NoWxid, tw |-> NoWxid, sw |-> NoWxid]

CapIdle == [pc |-> "idle", block |-> 0, msg |-> NoMessage, wxid |-> NoWxid,
            snd |-> NoSend]

TestIdle == [pc |-> "idle", wxid |-> NoWxid, via |-> "none"]

NoOne == [sender |-> NoWxid, exists |-> FALSE, admins |-> {}]

NoReply == [cmd |-> "none", who |-> NoOne, kind |-> "none", wxid |-> NoWxid,
            o |-> "none"]

NoResponse == [exc |-> FALSE, status |-> 0, body |-> <<>>]

NoLag == [since |-> 0, waiting |-> FALSE]

\* A line of heartbeat_errors.txt: the text it starts with (every writer
\* starts with a label that ends in a colon, then the date and the time of
\* time.strftime('%Y-%m-%d %H:%M:%S')), when it was written, whether it holds
\* one of the markers _check_users looks for, and the first wxid_... in it.
Lead == <<"label:", " ", "Y-m-d", " ", "H:M:S", " ">>

InitLine(t) == [lead |-> Lead, at |-> t, marker |-> FALSE, wxid |-> NoWxid]

NoCheck == [pc |-> "none", last |-> "none", site |-> "none", wxid |-> NoWxid,
            current_time |-> 0, lines |-> <<>>, i |-> 0, examined |-> 0,
            todo |-> <<>>, keys |-> {}, size |-> 0, result |-> "none", snd |-> NoSend]

NoFile == [exists |-> FALSE, readable |-> FALSE, enable |-> FALSE,
           current_wxid |-> NoWxid, token |-> ""]

NoInput == [file |-> NoFile, msg |-> NoMessage]

\* The config.toml that __init__ loaded: the plugin starts enabled.
Constructed(w) == [exists |-> TRUE, readable |-> TRUE, enable |-> TRUE,
                   current_wxid |-> w, token |-> "tok"]

\* handler: log_handler is registered with the logger.
ApiIdle == [pc |-> "sleep", current_time |-> 0, wxid |-> NoWxid, todo |-> <<>>,
            keys |-> {}, size |-> 0, snd |-> NoSend, handler |-> TRUE]

\* The loop ends and leaves log_handler registered.
ExitLeaving(a) == [a EXCEPT !.pc = "stopped"]

\* The loop ends: the finally clause calls log_handler.unregister().
Exit(a) == [a EXCEPT !.pc = "stopped", !.handler = FALSE]

\* stderr_monitor.py before it is started: errors is the error handler of
\* sys.stdin, stdin the lines written to the pipe and not yet read, closed
\* whether the writer has closed the pipe, given every line written to the
\* pipe so far, and stderr the lines the process has written to sys.stderr.
NoMonitor == [pc |-> "none", errors |-> "none", stdin |-> <<>>, closed |-> FALSE,
              given |-> <<>>, stderr |-> <<>>]

\* __init__ and async_init, with a config.toml whose retry_times is n.
Construct(n) ==
    /\ now = 0
    /\ enable = TRUE
    /\ current_wxid \in {NoWxid, "wxid_a"}
    /\ users = IF current_wxid = NoWxid THEN EmptyDict
               ELSE Put(EmptyDict, current_wxid, "")
    /\ failure_count = EmptyDict
    /\ last_notification_time = EmptyDict
    /\ cb = [t \in Tasks |-> FreeTask]
    /\ api = [ApiIdle EXCEPT !.pc = "get"]
    /\ cap = CapIdle
    /\ callback_current_wxid = current_wxid
    /\ accepted = NoWxid
    /\ delivered = EmptyDict
    /\ trace = NoTrace
    /\ pushplus_channel = "wechat"
    /\ title_template = "default"
    /\ offline_users = {}
    /\ notification_sent = EmptyDict
    /\ check_task = "None"
    /\ test = TestIdle
    /\ orphan = {}
    /\ commands = 0
    /\ reply = NoReply
    /\ polled = NoResponse
    /\ lag = NoLag
    /\ pushplus_token = "tok"
    /\ self_retry_times = n
    /\ mon = NoMonitor
    /\ heartbeat_errors = <<InitLine(0)>>
    /\ bot = FALSE
    /\ chk = NoCheck
    /\ seen = [NoInput EXCEPT !.file = Constructed(current_wxid)]

\* The config.toml files of the model hold the default retry_times, but
\* for the one of InitRetry.
Init == Construct(retry_times)

Tick ==
    /\ \E t \in TimePoints :
          /\ t > now
          /\ now' = t
    /\ accepted' = NoWxid
    /\ UNCHANGED <<config, failure_count, last_notification_time, cb, api, cap,
                   callback_current_wxid>>

(***************************************************************************)
(* heartbeat_failure_callback(w), from its start to its await of the       *)
(* delivery call, or to its end when the call returns without an attempt.  HeartbeatLogHandler.__call__ creates the task that runs *)
(* it; nothing the callback reads tells how long the task waited to be     *)
(* scheduled, so the creation and the run are one step.                    *)
(***************************************************************************)
FirstFree(t) ==
    /\ cb[t].pc = "free"
    /\ \A u \in Tasks : u < t => cb[u].pc # "free"

Callback(w) ==
    LET fc == RecordFailure(failure_count, w, now)
    IN IF w \notin DOMAIN users
       THEN UNCHANGED <<failure_count, cb>>
       ELSE /\ Len(fc[w]) <= MaxRecord
            /\ failure_count' = fc
            /\ IF /\ OverThreshold(fc, w)
                  /\ ResendAllowed(last_notification_time, w, now)
                  /\ SendStart(pushplus_token).pc # "ret"
               THEN \E t \in Tasks :
                       /\ InFlight < MaxInFlight
                       /\ FirstFree(t)
                       /\ cb' = [cb EXCEPT ![t] = [pc |-> "send", wxid |-> w,
                                                     current_time |-> now,
                                                     snd |-> SendStart(pushplus_token)]]
               ELSE UNCHANGED cb

\* A log line "Heartbeat failed for wxid w".
LogHeartbeatFailed(w) ==
    /\ api.handler
    /\ Callback(w)
    /\ accepted' = NoWxid
    /\ UNCHANGED <<now, config, last_notification_time, api, cap, callback_current_wxid>>

\* A log line with the fetch-failed and the logged-out marker.
LogFetchFailed ==
    /\ api.handler
    /\ callback_current_wxid # NoWxid
    /\ Callback(callback_current_wxid)
    /\ accepted' = NoWxid
    /\ UNCHANGED <<now, config, last_notification_time, api, cap, callback_current_wxid>>

(***************************************************************************)
(* The callback's delivery call gets the response to one POST; when the    *)
(* call returns the callback runs on to its end.                           *)
(***************************************************************************)
CallbackPost(t, o) ==
    /\ cb[t].pc = "send"
    /\ cb[t].snd.pc = "post"
    /\ LET s == PostStep(cb[t].snd, o)
           w == cb[t].wxid
       IN IF s.pc # "ret"
          THEN /\ cb' = [cb EXCEPT ![t].snd = s]
               /\ accepted' = NoWxid
               /\ UNCHANGED <<failure_count, last_notification_time>>
          ELSE /\ cb' = [cb EXCEPT ![t] = FreeTask]
               /\ accepted' = IF s.result THEN w ELSE NoWxid
               /\ last_notification_time' =
                      AfterSend(s.result, last_notification_time,
                                NotifiedAt(last_notification_time, w, cb[t].current_time))
               /\ failure_count' =
                      AfterSend(s.result, failure_count, ResetRecord(failure_count, w))
    /\ UNCHANGED <<now, config, api, cap, callback_current_wxid>>

CallbackWake(t) ==
    /\ cb[t].pc = "send"
    /\ cb[t].snd.pc = "sleep"
    /\ cb' = [cb EXCEPT ![t].snd = WakeStep(cb[t].snd)]
    /\ accepted' = NoWxid
    /\ UNCHANGED <<now, config, failure_count, last_notification_time, api, cap,
                   callback_current_wxid>>

(***************************************************************************)
(* _process_heartbeat_failure(w) starts a delivery.                        *)
(***************************************************************************)
\* ProcessSends without the membership test.
ProcessSendsAny(w) == TRUE

ProcessSends(w) == w \in DOMAIN users

(***************************************************************************)
(* _check_api_heartbeat, the main loop.  One pass of "for wxid in          *)
(* self.users" visits the keys in the dict's order, todo; a key added      *)
(* while the pass is suspended in a delivery is visited after them, a key  *)
(* removed is not visited, and a dict whose size changed makes the next    *)
(* step of the iteration raise RuntimeError, which ends the pass.          *)
(***************************************************************************)
RECURSIVE Orders(_)
Orders(S) ==
    IF S = {} THEN {<<>>}
    ELSE UNION {{<<w>> \o r : r \in Orders(S \ {w})} : w \in S}

RECURSIVE FirstOpen(_, _, _)
FirstOpen(todo, lnt, ct) ==
    IF todo = <<>> THEN <<>>
    ELSE IF ResendAllowed(lnt, Head(todo), ct) THEN todo
    ELSE FirstOpen(Tail(todo), lnt, ct)

PollPass(ct, todo, keys, size, lnt) ==
    IF Cardinality(DOMAIN users) # size
    THEN api' = ApiIdle
    ELSE \E new \in Orders(DOMAIN users \ keys) :
            LET rest == FirstOpen(SelectSeq(todo, LAMBDA w : w \in DOMAIN users) \o new,
                                  lnt, ct)
            IN IF rest = <<>> \/ ~ProcessSends(Head(rest))
               THEN api' = ApiIdle
               ELSE /\ api.pc = "send" \/ InFlight < MaxInFlight
                    /\ api' = [pc |-> "send", current_time |-> ct, wxid |-> Head(rest),
                                todo |-> Tail(rest), keys |-> keys \cup DOMAIN users,
                                size |-> size, snd |-> SendStart(pushplus_token),
                                handler |-> TRUE]

PollResults == {"healthy", "bad_body", "bad_status", "exception"}

PollFailed(r) == r \in {"bad_body", "bad_status"}

\* The response to GET /IsRunning.
PollGet(r) ==
    /\ api.pc = "get"
    /\ IF PollFailed(r)
       THEN PollPass(now, <<>>, {}, Cardinality(DOMAIN users), last_notification_time)
       ELSE api' = ApiIdle
    /\ accepted' = NoWxid
    /\ UNCHANGED <<now, config, failure_count, last_notification_time, cb, cap,
                   callback_current_wxid>>

\* The response to one POST of the pass's delivery call.
PollPost(o) ==
    /\ api.pc = "send"
    /\ api.snd.pc = "post"
    /\ LET s == PostStep(api.snd, o)
           w == api.wxid
           lnt == Put(last_notification_time, w, api.current_time)
       IN IF s.pc # "ret"
          THEN /\ api' = [api EXCEPT !.snd = s]
               /\ accepted' = NoWxid
               /\ UNCHANGED last_notification_time
          ELSE /\ last_notification_time' = lnt
               /\ accepted' = IF s.result THEN w ELSE NoWxid
               /\ PollPass(api.current_time, api.todo, api.keys, api.size, lnt)
    /\ UNCHANGED <<now, config, failure_count, cb, cap, callback_current_wxid>>

PollWake ==
    /\ api.pc = "send"
    /\ api.snd.pc = "sleep"
    /\ api' = [api EXCEPT !.snd = WakeStep(api.snd)]
    /\ accepted' = NoWxid
    /\ UNCHANGED <<now, config, failure_count, last_notification_time, cb, cap,
                   callback_current_wxid>>

\* The end of the loop's sleep: the loop condition, and the next GET.
PollSleep ==
    /\ api.pc = "sleep"
    /\ api' = IF enable THEN [api EXCEPT !.pc = "get"] ELSE Exit(api)
    /\ callback_current_wxid' = IF enable THEN current_wxid ELSE callback_current_wxid
    /\ accepted' = NoWxid
    /\ UNCHANGED <<now, config, failure_count, last_notification_time, cb, cap>>

(***************************************************************************)
(* capture_error_messages.  What the handler reads of a message: kind, a   *)
(* forwarded log line ("log": MsgType 1 from admin, system or log), a      *)
(* system message ("sys": MsgType 10000) or any other; marker, the         *)
(* heartbeat-failure marker in Content, Chinese ("cn": matches every       *)
(* check) or English ("en": "Heartbeat failed", which the system-message   *)
(* check does not look for); off, an offline marker in Content; err, the   *)
(* fetch-failed or "error" marker in str(message); cw, tw and sw, the      *)
(* first wxid_... in Content, in ToWxid and in str(message).               *)
(*                                                                         *)
(* The handler has five checks in a row, each of which may call            *)
(* _process_heartbeat_failure and wait for its delivery.                   *)
(***************************************************************************)
Messages ==
    { [NoMessage EXCEPT !.kind = "log", !.marker = "en", !.cw = "wxid_a", !.sw = "wxid_a"],
      [NoMessage EXCEPT !.kind = "log", !.marker = "cn", !.tw = "wxid_b", !.sw = "wxid_b"],
      [NoMessage EXCEPT !.kind = "sys", !.marker = "cn"],
      [NoMessage EXCEPT !.kind = "sys", !.marker = "cn", !.cw = "wxid_b", !.sw = "wxid_b"],
      [NoMessage EXCEPT !.off = TRUE],
      [NoMessage EXCEPT !.kind = "sys", !.marker = "cn", !.cw = "wxid_b", !.sw = "wxid_b",
                        !.err = TRUE],
      NoMessage }

OnlyUser == CHOOSE w \in DOMAIN users : TRUE

\* The wxid the k-th check of the handler passes to _process_heartbeat_failure
\* (NoWxid: it makes no call).
BlockTarget(k, m) ==
    CASE k = 1 ->
           IF m.kind = "log" /\ m.marker # "none"
           THEN (IF m.cw # NoWxid THEN m.cw
                 ELSE IF m.tw # NoWxid THEN m.tw ELSE current_wxid)
           ELSE NoWxid
      [] k = 2 ->
           IF m.kind = "sys" /\ m.marker = "cn"
           THEN (IF m.cw # NoWxid THEN m.cw
                 ELSE IF current_wxid # NoWxid THEN current_wxid
                 ELSE IF Cardinality(DOMAIN users) = 1 THEN OnlyUser ELSE NoWxid)
           ELSE NoWxid
      [] k = 3 ->
           IF m.marker # "none" /\ m.sw # NoWxid
                /\ (m.sw \in DOMAIN users \/ m.sw = current_wxid)
           THEN m.sw ELSE NoWxid
      [] k = 4 ->
           IF m.off
           THEN (IF m.cw # NoWxid THEN m.cw ELSE current_wxid)
           ELSE NoWxid
      [] OTHER ->
           IF m.err
           THEN (IF current_wxid # NoWxid /\ current_wxid \in DOMAIN users
                 THEN current_wxid
                 ELSE IF Cardinality(DOMAIN users) = 1 THEN OnlyUser ELSE NoWxid)
           ELSE NoWxid

\* The checks from the k-th on, up to the first that waits for a delivery.
RECURSIVE CaptureFrom(_, _)
CaptureFrom(k, m) ==
    IF k > 5 THEN cap' = CapIdle
    ELSE IF BlockTarget(k, m) # NoWxid /\ ProcessSends(BlockTarget(k, m))
    THEN /\ cap.pc = "send" \/ InFlight < MaxInFlight
         /\ cap' = [pc |-> "send", block |-> k, msg |-> m, wxid |-> BlockTarget(k, m),
                     snd |-> SendStart(pushplus_token)]
    ELSE CaptureFrom(k + 1, m)

\* An inbound text message.
CaptureMessage(m) ==
    /\ cap.pc = "idle"
    /\ enable
    /\ CaptureFrom(1, m)
    /\ accepted' = NoWxid
    /\ UNCHANGED <<now, config, failure_count, last_notification_time, cb, api,
                   callback_current_wxid>>

\* The response to one POST of the handler's delivery call.
CapturePost(o) ==
    /\ cap.pc = "send"
    /\ cap.snd.pc = "post"
    /\ LET s == PostStep(cap.snd, o)
       IN IF s.pc # "ret"
          THEN /\ cap' = [cap EXCEPT !.snd = s]
               /\ accepted' = NoWxid
          ELSE /\ accepted' = IF s.result THEN cap.wxid ELSE NoWxid
               /\ CaptureFrom(cap.block + 1, cap.msg)
    /\ UNCHANGED <<now, config, failure_count, last_notification_time, cb, api,
                   callback_current_wxid>>

CaptureWake ==
    /\ cap.pc = "send"
    /\ cap.snd.pc = "sleep"
    /\ cap' = [cap EXCEPT !.snd = WakeStep(cap.snd)]
    /\ accepted' = NoWxid
    /\ UNCHANGED <<now, config, failure_count, last_notification_time, cb, api,
                   callback_current_wxid>>

(***************************************************************************)
(* The steps of the plugin.  The push service's record of the              *)
(* notifications it accepted is no part of the plugin's state: Spec leaves *)
(* it alone, SpecDelivered keeps it.                                       *)
(***************************************************************************)
Keep == UNCHANGED <<delivered, trace, plugin, observed>>

Record ==
    /\ delivered' = IF accepted' # NoWxid THEN Accept(delivered, accepted', now)
                    ELSE delivered
    /\ UNCHANGED <<trace, plugin, observed>>

Next ==
    \/ Tick /\ Keep
    \/ \E w \in Ids : LogHeartbeatFailed(w) /\ Keep
    \/ LogFetchFailed /\ Keep
    \/ \E t \in Tasks, o \in Outcomes : CallbackPost(t, o) /\ Keep
    \/ \E t \in Tasks : CallbackWake(t) /\ Keep
    \/ \E r \in PollResults : PollGet(r) /\ Keep
    \/ \E o \in Outcomes : PollPost(o) /\ Keep
    \/ PollWake /\ Keep
    \/ PollSleep /\ Keep
    \/ \E m \in Messages : CaptureMessage(m) /\ Keep
    \/ \E o \in Outcomes : CapturePost(o) /\ Keep
    \/ CaptureWake /\ Keep

Spec == Init /\ [][Next]_vars

NextDelivered ==
    \/ Tick /\ Record
    \/ \E w \in Ids : LogHeartbeatFailed(w) /\ Record
    \/ LogFetchFailed /\ Record
    \/ \E t \in Tasks, o \in Outcomes : CallbackPost(t, o) /\ Record
    \/ \E t \in Tasks : CallbackWake(t) /\ Record
    \/ \E r \in PollResults : PollGet(r) /\ Record
    \/ \E o \in Outcomes : PollPost(o) /\ Record
    \/ PollWake /\ Record
    \/ PollSleep /\ Record
    \/ \E m \in Messages : CaptureMessage(m) /\ Record
    \/ \E o \in Outcomes : CapturePost(o) /\ Record
    \/ CaptureWake /\ Record

SpecDelivered == Init /\ [][NextDelivered]_vars

(***************************************************************************)
(* The callbacks alone, with a trace of their delivery calls: cur[t] is    *)
(* what the call of task t has done so far, the response to each POST and  *)
(* each sleep ("wait"); log and result are the trace and the return value  *)
(* of the call that returned last.                                         *)
(***************************************************************************)
TracePost(t, o) ==
    LET s == PostStep(cb[t].snd, o)
        log == Append(trace.cur[t], o)
    IN /\ trace' = IF s.pc = "ret"
                   THEN [trace EXCEPT !.cur[t] = <<>>, !.returned = TRUE,
                                      !.log = log, !.result = s.result]
                   ELSE [trace EXCEPT !.cur[t] = log]
       /\ UNCHANGED <<delivered, plugin, observed>>

TraceWake(t) ==
    /\ trace' = [trace EXCEPT !.cur[t] = Append(@, "wait")]
    /\ UNCHANGED <<delivered, plugin, observed>>


(***************************************************************************)
(* The response to GET /IsRunning: a transport or timeout exception, or a  *)
(* status and a body, the body as the sequence of its characters.          *)
(***************************************************************************)
Whitespace == {" ", "\n"}

RECURSIVE LStrip(_)
LStrip(b) == IF b # <<>> /\ Head(b) \in Whitespace THEN LStrip(Tail(b)) ELSE b

RECURSIVE RStrip(_)
RStrip(b) ==
    IF b # <<>> /\ b[Len(b)] \in Whitespace THEN RStrip(SubSeq(b, 1, Len(b) - 1)) ELSE b

\* Strip that leaves the body as it is.
StripNothing(b) == b

Strip(b) == RStrip(LStrip(b))

LowerChar(c) == CASE c = "O" -> "o" [] c = "K" -> "k" [] OTHER -> c

Lower(b) == [i \in DOMAIN b |-> LowerChar(b[i])]

Bodies == { <<"o", "k">>, <<" ", "O", "K", "\n">>, <<"o", " ", "k">>, <<>> }

PollResponses ==
    {[exc |-> TRUE, status |-> 0, body |-> <<>>]}
      \cup {[exc |-> FALSE, status |-> st, body |-> b] : st \in {200, 500}, b \in Bodies}

Classify(r) ==
    IF r.exc THEN "exception"
    ELSE IF r.status = 200
    THEN (IF Lower(Strip(r.body)) # <<"o", "k">> THEN "bad_body" ELSE "healthy")
    ELSE "bad_status"

(***************************************************************************)
(* The command handlers.  Each starts with the same three tests: the       *)
(* plugin is enabled, the message is the handler's command (a step of a    *)
(* handler is a message that is), and is_admin(sender) is true.  is_admin  *)
(* reads main_config.toml and returns None when the file is not there.     *)
(***************************************************************************)
MainConfigs == { [exists |-> FALSE, admins |-> {}],
                 [exists |-> TRUE, admins |-> {"wxid_a"}] }

\* is_admin that lets everyone in when main_config.toml is not there.
is_adminNoFile(mc, wxid) ==
    IF mc.exists THEN (IF wxid \in mc.admins THEN "True" ELSE "False") ELSE "True"

is_admin(mc, wxid) ==
    IF mc.exists THEN (IF wxid \in mc.admins THEN "True" ELSE "False") ELSE "None"

\* The sender of a command and the main_config.toml of the moment.
Who(sender, mc) == [sender |-> sender, exists |-> mc.exists, admins |-> mc.admins]

Said(c, a, k, w) == [cmd |-> c, who |-> a, kind |-> k, wxid |-> w, o |-> "none"]

\* A handler that returns without writing anything, after a command that
\* named w.
Told(c, a, k, w) ==
    /\ reply' = Said(c, a, k, w)
    /\ UNCHANGED <<config, pushplus_channel, title_template, offline_users, check_task,
                   test, pushplus_token, self_retry_times, mon>>

Skip(c, a, k) == Told(c, a, k, NoWxid)

\* Handler without the test of self.enable.
HandlerEnabled(c, sender, mc, body) ==
    /\ commands < MaxCommands
    /\ commands' = commands + 1
    /\ accepted' = NoWxid
    /\ UNCHANGED <<now, failure_count, last_notification_time, cb, api, cap,
                   callback_current_wxid, notification_sent, orphan, evidence>>
    /\ IF is_admin(mc, sender) # "True" THEN Skip(c, Who(sender, mc), "denied")
       ELSE body

Handler(c, sender, mc, body) ==
    /\ commands < MaxCommands
    /\ commands' = commands + 1
    /\ accepted' = NoWxid
    /\ UNCHANGED <<now, failure_count, last_notification_time, cb, api, cap,
                   callback_current_wxid, notification_sent, orphan, evidence>>
    /\ IF ~enable THEN Skip(c, Who(sender, mc), "none")
       ELSE IF is_admin(mc, sender) # "True" THEN Skip(c, Who(sender, mc), "denied")
       ELSE body

\* TestStart that sends nothing.
TestStartNothing(w, via) == TestIdle

\* _send_test_message(w), up to its POST.
TestStart(w, via) == [pc |-> "post", wxid |-> w, via |-> via]

\* What _send_test_message returns.
TestResult(o) == o = "ok"

\* sms_test
TestCommand(sender, mc) ==
    Handler("test", sender, mc,
        LET w == IF current_wxid = NoWxid THEN sender ELSE current_wxid
        IN /\ test.pc = "idle"
           /\ current_wxid' = w
           /\ users' = IF current_wxid = NoWxid THEN Put(users, sender, "") ELSE users
           /\ test' = TestStart(w, "test")
           /\ reply' = Said("test", Who(sender, mc), "sending", w)
           /\ UNCHANGED <<enable, pushplus_channel, title_template, offline_users,
                          check_task, pushplus_token, self_retry_times, mon>>)

\* capture_bot_id: a text message of sender while no wxid is known.
CaptureBotId(sender) ==
    /\ current_wxid = NoWxid
    /\ current_wxid' = sender
    /\ users' = Put(users, sender, "")
    /\ reply' = NoReply
    /\ accepted' = NoWxid
    /\ UNCHANGED <<now, enable, failure_count, last_notification_time, cb, api, cap,
                   callback_current_wxid, plugin>>

\* sms_set_wxid w
SetWxidCommand(sender, mc, w) ==
    Handler("set_wxid", sender, mc,
        /\ test.pc = "idle"
        /\ current_wxid' = w
        /\ users' = Put(IF current_wxid \in DOMAIN users THEN Del(users, current_wxid)
                        ELSE users, w, "")
        /\ test' = TestStart(w, "set_wxid")
        /\ reply' = Said("set_wxid", Who(sender, mc), "sending", w)
        /\ UNCHANGED <<enable, pushplus_channel, title_template, offline_users,
                       check_task, pushplus_token, self_retry_times, mon>>)

\* The response to the POST of _send_test_message.
TestPost(o) ==
    /\ test.pc = "post"
    /\ test' = TestIdle
    /\ reply' = [cmd |-> "result", who |-> NoOne,
                 kind |-> IF TestResult(o) THEN "test_ok" ELSE "test_failed",
                 wxid |-> test.wxid, o |-> o]
    /\ accepted' = NoWxid
    /\ UNCHANGED <<now, config, failure_count, last_notification_time, cb, api, cap,
                   callback_current_wxid, pushplus_channel, title_template,
                   offline_users, notification_sent, check_task, orphan, commands,
                   pushplus_token, self_retry_times, mon, evidence>>

(***************************************************************************)
(* _load_config: what config.toml holds, and what the plugin holds after   *)
(* loading it.  A file is there or not, can be read and parsed or not,     *)
(* and holds enable, current_wxid and the PushPlus token.  The files of    *)
(* ConfigFiles are in order or missing; BadConfigFiles are the files that  *)
(* cannot be read and the files without a token.                           *)
(***************************************************************************)
ConfigFiles ==
    { NoFile,
      [exists |-> TRUE, readable |-> TRUE, enable |-> TRUE, current_wxid |-> "wxid_a",
       token |-> "tok"],
      [exists |-> TRUE, readable |-> TRUE, enable |-> FALSE, current_wxid |-> "wxid_a",
       token |-> "tok"],
      [exists |-> TRUE, readable |-> TRUE, enable |-> TRUE, current_wxid |-> NoWxid,
       token |-> "tok"] }

BadConfigFiles ==
    { [exists |-> TRUE, readable |-> FALSE, enable |-> TRUE, current_wxid |-> "wxid_a",
       token |-> "tok"],
      [exists |-> TRUE, readable |-> TRUE, enable |-> TRUE, current_wxid |-> "wxid_a",
       token |-> ""] }

\* A config.toml that parses and whose pushplus key is no table: the read
\* of the token raises after enable and current_wxid have been read.
NoTable == "no table"

HalfReadFiles ==
    { [exists |-> TRUE, readable |-> TRUE, enable |-> TRUE, current_wxid |-> "wxid_a",
       token |-> NoTable] }

\* LoadConfig that takes enable as the file has it.
LoadConfigTrusting(file) ==
    [enable |-> file.enable,
     users |-> IF file.current_wxid # NoWxid
               THEN Put(EmptyDict, file.current_wxid, "") ELSE EmptyDict,
     current_wxid |-> file.current_wxid,
     channel |-> "wechat", title |-> "default", token |-> file.token]

LoadConfig(file) ==
    IF ~file.exists \/ ~file.readable
    THEN [enable |-> FALSE, users |-> EmptyDict, current_wxid |-> NoWxid,
          channel |-> pushplus_channel, title |-> "default", token |-> pushplus_token]
    ELSE IF file.token = NoTable
    THEN [enable |-> FALSE, users |-> EmptyDict, current_wxid |-> file.current_wxid,
          channel |-> pushplus_channel, title |-> "default", token |-> pushplus_token]
    ELSE [enable |-> file.enable /\ file.token # "",
          users |-> IF file.current_wxid # NoWxid
                    THEN Put(EmptyDict, file.current_wxid, "") ELSE EmptyDict,
          current_wxid |-> file.current_wxid,
          channel |-> "wechat", title |-> "default", token |-> file.token]

\* sms_reload
ReloadCommand(sender, mc, file) ==
    Handler("reload", sender, mc,
        LET was_enabled == enable
            c == LoadConfig(file)
        IN /\ enable' = c.enable
           /\ users' = c.users
           /\ current_wxid' = c.current_wxid
           /\ pushplus_channel' = c.channel
           /\ title_template' = c.title
           /\ pushplus_token' = c.token
           /\ UNCHANGED <<self_retry_times, mon>>
           /\ check_task' = IF was_enabled /\ ~c.enable THEN "None"
                            ELSE IF ~was_enabled /\ c.enable THEN "_check_loop"
                            ELSE check_task
           /\ reply' = Said("reload", Who(sender, mc), "reloaded", NoWxid)
           /\ UNCHANGED <<offline_users, test>>)

\* sms_status
StatusCommand(sender, mc) ==
    Handler("status", sender, mc, Skip("status", Who(sender, mc), "status"))

\* sms_heartbeat [w]
HeartbeatCommand(sender, mc, arg) ==
    Handler("heartbeat", sender, mc,
        LET w == IF arg # NoWxid THEN arg
                 ELSE IF current_wxid # NoWxid THEN current_wxid
                 ELSE IF Cardinality(DOMAIN users) = 1 THEN OnlyUser ELSE NoWxid
        IN Skip("heartbeat", Who(sender, mc), IF w = NoWxid THEN "usage" ELSE "heartbeat"))

\* sms_monitor w [to]: without the third word, parts[2] raises IndexError.
\* Monitored that finds no wxid in the dict.
MonitoredNever(u, w) == FALSE

Monitored(u, w) == w \in DOMAIN u

MonitorCommand(sender, mc, w, has_to) ==
    Handler("monitor", sender, mc,
        IF ~has_to THEN Told("monitor", Who(sender, mc), "raised", w)
        ELSE IF Monitored(users, w) THEN Told("monitor", Who(sender, mc), "exists", w)
        ELSE /\ users' = Put(users, w, "to")
             /\ reply' = Said("monitor", Who(sender, mc), "added", w)
             /\ UNCHANGED <<enable, current_wxid, pushplus_channel, title_template,
                            offline_users, check_task, test, pushplus_token, self_retry_times, mon>>)

\* sms_unmonitor w
UnmonitorCommand(sender, mc, w) ==
    Handler("unmonitor", sender, mc,
        IF ~Monitored(users, w) THEN Told("unmonitor", Who(sender, mc), "absent", w)
        ELSE /\ users' = Del(users, w)
             /\ offline_users' = offline_users \ {w}
             /\ reply' = Said("unmonitor", Who(sender, mc), "removed", w)
             /\ UNCHANGED <<enable, current_wxid, pushplus_channel, title_template,
                            check_task, test, pushplus_token, self_retry_times, mon>>)

ValidChannels == {"wechat", "sms", "mail", "webhook", "cp"}

\* sms_channel ch
ChannelCommand(sender, mc, ch) ==
    Handler("channel", sender, mc,
        IF ch \notin ValidChannels THEN Skip("channel", Who(sender, mc), "unsupported")
        ELSE /\ pushplus_channel' = ch
             /\ reply' = Said("channel", Who(sender, mc), "changed", NoWxid)
             /\ UNCHANGED <<config, title_template, offline_users, check_task, test,
                            pushplus_token, self_retry_times, mon>>)

\* sms_template type text
TemplateCommand(sender, mc, type) ==
    Handler("template", sender, mc,
        IF type # "title" THEN Skip("template", Who(sender, mc), "unknown")
        ELSE /\ title_template' = "custom"
             /\ reply' = Said("template", Who(sender, mc), "updated", NoWxid)
             /\ UNCHANGED <<config, pushplus_channel, offline_users, check_task, test,
                            pushplus_token, self_retry_times, mon>>)

(***************************************************************************)
(* The host loads the plugin again after the poll loop has ended: __init__ *)
(* reads config.toml, async_init opens heartbeat_errors.txt with mode "w"  *)
(* and writes its first line, and calls _check_api_heartbeat, whose        *)
(* failure_count and last_notification_time are new dicts.  The callback   *)
(* tasks of the call that ended run on, with the dicts of that call.       *)
(***************************************************************************)
Restart(file) ==
    /\ api.pc = "stopped"
    /\ test.pc = "idle"
    /\ LET c == LoadConfig(file)
       IN /\ enable' = c.enable
          /\ users' = c.users
          /\ current_wxid' = c.current_wxid
          /\ pushplus_channel' = c.channel
          /\ title_template' = c.title
          /\ pushplus_token' = c.token
          /\ UNCHANGED <<self_retry_times, mon>>
          /\ callback_current_wxid' = c.current_wxid
          /\ api' = IF c.enable THEN [ApiIdle EXCEPT !.pc = "get"] ELSE api
    /\ failure_count' = EmptyDict
    /\ last_notification_time' = EmptyDict
    /\ offline_users' = {}
    /\ notification_sent' = EmptyDict
    /\ check_task' = "None"
    /\ orphan' = {t \in Tasks : cb[t].pc = "send"}
    /\ accepted' = NoWxid
    /\ reply' = NoReply
    /\ heartbeat_errors' = <<InitLine(now)>>
    /\ bot' = FALSE
    /\ UNCHANGED <<now, cb, cap, test, commands, chk>>

\* The response to one POST of the delivery call of a callback of the call
\* that ended: what the callback writes, it writes to that call's dicts.
OrphanPost(t, o) ==
    /\ t \in orphan
    /\ cb[t].pc = "send"
    /\ cb[t].snd.pc = "post"
    /\ LET s == PostStep(cb[t].snd, o)
       IN IF s.pc # "ret"
          THEN /\ cb' = [cb EXCEPT ![t].snd = s]
               /\ accepted' = NoWxid
               /\ UNCHANGED orphan
          ELSE /\ cb' = [cb EXCEPT ![t] = FreeTask]
               /\ accepted' = IF s.result THEN cb[t].wxid ELSE NoWxid
               /\ orphan' = orphan \ {t}
    /\ reply' = NoReply
    /\ UNCHANGED <<now, config, failure_count, last_notification_time, api, cap,
                   callback_current_wxid, pushplus_channel, title_template,
                   offline_users, notification_sent, check_task, test, commands,
                   pushplus_token, self_retry_times, mon, evidence>>

(***************************************************************************)
(* The plugin with its command handlers and with its restarts.  lag       *)
(* counts the waits the poll loop began and ended since enable became  *)
(* false: 2 s for the loop's sleep, retry_interval for a delivery's.       *)
(***************************************************************************)
Waits(a) == a.pc = "sleep" \/ (a.pc = "send" /\ a.snd.pc = "sleep")

WaitOf(a) == IF a.pc = "sleep" THEN SleepInterval ELSE retry_interval

LagStep ==
    lag' = IF enable' \/ enable THEN NoLag
           ELSE IF api' = api THEN lag
           ELSE IF Waits(api) /\ lag.waiting
           THEN [since |-> lag.since + WaitOf(api), waiting |-> Waits(api')]
           ELSE [lag EXCEPT !.waiting = Waits(api')]

Watch == /\ polled' = NoResponse
         /\ LagStep
         /\ UNCHANGED <<delivered, trace, seen>>

Silent == /\ reply' = NoReply
          /\ Watch
          /\ UNCHANGED plugin

\* stderr_monitor.py: a line of the host's stderr that holds a marker and
\* names w is appended to heartbeat_errors.txt.
StderrLine(w) ==
    /\ heartbeat_errors' = Append(heartbeat_errors,
                                  [lead |-> Lead, at |-> now, marker |-> TRUE, wxid |-> w])
    /\ accepted' = NoWxid
    /\ UNCHANGED <<now, config, failure_count, last_notification_time, cb, api, cap,
                   callback_current_wxid, pushplus_channel, title_template,
                   offline_users, notification_sent, check_task, test, orphan, commands,
                   pushplus_token, self_retry_times, mon, bot, chk>>

\* A step that answers no command.
Quiet == reply' = NoReply /\ Watch

(***************************************************************************)
(* _check_loop and _check_users.  The task is created by                   *)
(* asyncio.create_task(self._check_loop()) in handle_reload_command, on    *)
(* the branch of a plugin that was disabled and is enabled by the reload;  *)
(* what follows is the loop once the task exists.  A pass replays the last *)
(* lines of heartbeat_errors.txt and then visits the monitored wxids: a    *)
(* wxid in offline_users gets a reminder when the last one is old enough,  *)
(* any other wxid a probe, bot.heartbeat().  chk.site tells which of the   *)
(* three places a delivery was started from.                               *)
(***************************************************************************)
\* f.readlines()[-10:]
Recent(log) ==
    SubSeq(log, IF Len(log) > LastLines THEN Len(log) - LastLines + 1 ELSE 1, Len(log))

\* error_line.split()[0]
RECURSIVE FirstToken(_)
FirstToken(text) ==
    IF text = <<>> \/ Head(text) = " " THEN <<>>
    ELSE <<Head(text)>> \o FirstToken(Tail(text))

\* datetime.strptime(s, "%Y/%m/%d %H:%M:%S") returns a time.
Strptime(s) == s = <<"Y/m/d", " ", "H:M:S">>

\* The line raises inside the try of its timestamp.
LineRaises(l) == l.marker /\ ~Strptime(FirstToken(l.lead))

\* LineSignals that takes the time the line was written for its timestamp
\* and does not look at its age.
LineSignalsAnyAge(l, ct) == l.marker /\ l.wxid # NoWxid /\ l.wxid \in DOMAIN users

\* The line makes _check_users call _process_heartbeat_failure(l.wxid).
LineSignals(l, ct) ==
    /\ l.marker
    /\ Strptime(FirstToken(l.lead))
    /\ ct - l.at <= EvidenceWindow
    /\ l.wxid # NoWxid
    /\ l.wxid \in DOMAIN users

\* AfterLine that leaves the loop over the lines when a line has raised.
AfterLineStop(i, n, raised) == IF raised THEN n + 1 ELSE i + 1

\* The line the loop over the lines goes to after the i-th of n.
AfterLine(i, n, raised) == i + 1

\* The loop over the lines from the i-th on, k lines looked at so far, up to
\* the first line that starts a delivery.
RECURSIVE ScanLines(_, _, _, _)
ScanLines(lines, i, k, ct) ==
    IF i > Len(lines) THEN [i |-> i, examined |-> k, signal |-> FALSE]
    ELSE IF LineSignals(lines[i], ct) /\ SendStart(pushplus_token).pc # "ret"
    THEN [i |-> i, examined |-> k + 1, signal |-> TRUE]
    ELSE ScanLines(lines, AfterLine(i, Len(lines), LineRaises(lines[i])), k + 1, ct)

\* The task between two passes.
Sleeping(c) == [NoCheck EXCEPT !.pc = "wait", !.last = c.last, !.examined = c.examined,
                               !.result = c.result]

\* IsOffline that takes every wxid for one known to be offline.
IsOfflineAny(off, w) == TRUE

\* wxid in self.offline_users
IsOffline(off, w) == w \in off

ReminderDue(w, ct) ==
    w \notin DOMAIN notification_sent \/ ct - notification_sent[w] > ReminderInterval

\* ProbeFailed that takes a probe that raised for a probe that succeeded.
ProbeFailedIfFalse(r) == r = "false"

\* not heartbeat_result, or bot.heartbeat() raised.
ProbeFailed(r) == r # "true"

\* "for wxid in self.users.keys()" from the rest of the dict's order on, up to
\* the first await; a dict whose size changed raises RuntimeError, which ends
\* the pass.
RECURSIVE CheckUsers(_)
CheckUsers(c) ==
    IF Cardinality(DOMAIN users) # c.size THEN chk' = Sleeping(c)
    ELSE \E new \in Orders(DOMAIN users \ c.keys) :
            LET rest == SelectSeq(c.todo, LAMBDA w : w \in DOMAIN users) \o new
                d == [c EXCEPT !.wxid = Head(rest), !.todo = Tail(rest),
                               !.keys = c.keys \cup DOMAIN users]
            IN IF rest = <<>> THEN chk' = Sleeping(c)
               ELSE IF ~IsOffline(offline_users, Head(rest))
               THEN chk' = [d EXCEPT !.pc = "probe", !.site = "probe"]
               ELSE IF ReminderDue(Head(rest), c.current_time)
                         /\ SendStart(pushplus_token).pc # "ret"
               THEN chk' = [d EXCEPT !.pc = "send", !.site = "remind",
                                     !.snd = SendStart(pushplus_token)]
               ELSE CheckUsers(d)

\* The loop over the lines is over: the loop over the monitored wxids.
StartUsers(c) ==
    CheckUsers([c EXCEPT !.lines = <<>>, !.i = 0, !.todo = <<>>, !.keys = {},
                         !.size = Cardinality(DOMAIN users)])

\* The loop over the lines from the i-th on.
CheckLines(c, i) ==
    LET r == ScanLines(c.lines, i, c.examined, c.current_time)
        d == [c EXCEPT !.i = r.i, !.examined = r.examined]
    IN IF r.signal
       THEN chk' = [d EXCEPT !.pc = "send", !.site = "line", !.wxid = c.lines[r.i].wxid,
                             !.snd = SendStart(pushplus_token)]
       ELSE StartUsers(d)

\* asyncio.create_task(self._check_loop())
CheckLoopStart ==
    /\ check_task = "None"
    /\ chk.pc = "none"
    /\ check_task' = "_check_loop"
    /\ chk' = [NoCheck EXCEPT !.pc = "wait"]
    /\ accepted' = NoWxid
    /\ UNCHANGED <<now, config, failure_count, last_notification_time, cb, api, cap,
                   callback_current_wxid, pushplus_channel, title_template,
                   offline_users, notification_sent, test, orphan, commands,
                   pushplus_token, self_retry_times, mon, heartbeat_errors, bot>>

\* A text message with no marker: every handler starts with self.bot = bot.
TextMessage ==
    /\ CaptureMessage(NoMessage)
    /\ bot' = TRUE
    /\ UNCHANGED <<pushplus_channel, title_template, offline_users, notification_sent,
                   check_task, test, orphan, commands, pushplus_token, self_retry_times, mon,
                   heartbeat_errors, chk>>

\* The loop test and a pass of _check_users up to its first await; without
\* self.bot the pass is skipped.
CheckPass ==
    /\ chk.pc = "wait"
    /\ IF ~enable THEN chk' = [NoCheck EXCEPT !.pc = "stopped"]
       ELSE IF ~bot THEN chk' = [NoCheck EXCEPT !.pc = "wait", !.last = "skipped"]
       ELSE CheckLines([NoCheck EXCEPT !.last = "checked", !.current_time = now,
                                       !.lines = Recent(heartbeat_errors)], 1)
    /\ accepted' = NoWxid
    /\ UNCHANGED <<now, config, failure_count, last_notification_time, cb, api, cap,
                   callback_current_wxid, pushplus_channel, title_template,
                   offline_users, notification_sent, check_task, test, orphan, commands,
                   pushplus_token, self_retry_times, mon, heartbeat_errors, bot>>

\* bot.heartbeat() has returned r or has raised.
CheckProbe(r) ==
    /\ chk.pc = "probe"
    /\ LET c == [chk EXCEPT !.result = r]
       IN IF ProbeFailed(r) /\ ProcessSends(chk.wxid)
               /\ SendStart(pushplus_token).pc # "ret"
          THEN chk' = [c EXCEPT !.pc = "send", !.snd = SendStart(pushplus_token)]
          ELSE CheckUsers(c)
    /\ accepted' = NoWxid
    /\ UNCHANGED <<now, config, failure_count, last_notification_time, cb, api, cap,
                   callback_current_wxid, pushplus_channel, title_template,
                   offline_users, notification_sent, check_task, test, orphan, commands,
                   pushplus_token, self_retry_times, mon, heartbeat_errors, bot>>

\* The response to one POST of the delivery call of the pass.
CheckPost(o) ==
    /\ chk.pc = "send"
    /\ chk.snd.pc = "post"
    /\ LET s == PostStep(chk.snd, o)
           c == [chk EXCEPT !.snd = NoSend]
       IN IF s.pc # "ret"
          THEN /\ chk' = [chk EXCEPT !.snd = s]
               /\ accepted' = NoWxid
               /\ UNCHANGED notification_sent
          ELSE /\ accepted' = IF s.result THEN chk.wxid ELSE NoWxid
               /\ notification_sent' =
                      IF chk.site = "remind" /\ s.result
                      THEN Put(notification_sent, chk.wxid, chk.current_time)
                      ELSE notification_sent
               /\ IF chk.site = "line"
                  THEN CheckLines(c, AfterLine(chk.i, Len(chk.lines), FALSE))
                  ELSE CheckUsers(c)
    /\ UNCHANGED <<now, config, failure_count, last_notification_time, cb, api, cap,
                   callback_current_wxid, pushplus_channel, title_template,
                   offline_users, check_task, test, orphan, commands, pushplus_token, self_retry_times, mon,
                   heartbeat_errors, bot>>

CheckWake ==
    /\ chk.pc = "send"
    /\ chk.snd.pc = "sleep"
    /\ chk' = [chk EXCEPT !.snd = WakeStep(chk.snd)]
    /\ accepted' = NoWxid
    /\ UNCHANGED <<now, config, failure_count, last_notification_time, cb, api, cap,
                   callback_current_wxid, pushplus_channel, title_template,
                   offline_users, notification_sent, check_task, test, orphan, commands,
                   pushplus_token, self_retry_times, mon, heartbeat_errors, bot>>

\* The config.toml a step loaded.
Loaded(file) ==
    /\ seen' = [seen EXCEPT !.file = file]
    /\ polled' = NoResponse
    /\ LagStep
    /\ UNCHANGED <<delivered, trace>>

\* The delivery call of the callback for w that returns before its first
\* attempt leaves an empty trace.
TraceCall(w) ==
    /\ trace' = IF /\ w \in DOMAIN users
                   /\ OverThreshold(failure_count', w)
                   /\ ResendAllowed(last_notification_time, w, now)
                   /\ SendStart(pushplus_token).pc = "ret"
                THEN [trace EXCEPT !.returned = TRUE, !.log = <<>>, !.result = FALSE]
                ELSE trace
    /\ UNCHANGED <<delivered, plugin, observed>>

\* The callbacks and the test command, with the trace of the callbacks'
\* delivery calls.
NextSend ==
    \/ Tick /\ Keep
    \/ \E w \in Ids : LogHeartbeatFailed(w) /\ Keep
    \/ LogFetchFailed /\ Keep
    \/ \E t \in Tasks, o \in Outcomes : CallbackPost(t, o) /\ TracePost(t, o)
    \/ \E t \in Tasks : CallbackWake(t) /\ TraceWake(t)
    \/ \E sender \in Ids, mc \in MainConfigs :
          TestCommand(sender, mc) /\ UNCHANGED <<delivered, trace, polled, lag, seen>>
    \/ \E o \in Outcomes : TestPost(o) /\ UNCHANGED <<delivered, trace, polled, lag, seen>>

SpecSend == Init /\ [][NextSend]_vars

\* The clock, as far as these specifications follow it.
TickEarly == Tick /\ now' <= MaxAdminTime

\* The command handlers and the callbacks.
NextAdmin ==
    \/ TickEarly /\ Silent
    \/ \E w \in Ids : LogHeartbeatFailed(w) /\ Silent
    \/ \E t \in Tasks, o \in Outcomes : CallbackPost(t, o) /\ Silent
    \/ \E t \in Tasks : CallbackWake(t) /\ Silent
    \/ \E sender \in Ids, mc \in MainConfigs : TestCommand(sender, mc) /\ Watch
    \/ \E sender \in Ids, mc \in MainConfigs, w \in Ids :
          SetWxidCommand(sender, mc, w) /\ Watch
    \/ \E o \in Outcomes : TestPost(o) /\ Watch
    \/ \E sender \in Ids, mc \in MainConfigs, file \in ConfigFiles :
          ReloadCommand(sender, mc, file) /\ Watch
    \/ \E sender \in Ids, mc \in MainConfigs : StatusCommand(sender, mc) /\ Watch
    \/ \E sender \in Ids, mc \in MainConfigs, arg \in Ids \cup {NoWxid} :
          HeartbeatCommand(sender, mc, arg) /\ Watch
    \/ \E sender \in Ids, mc \in MainConfigs, w \in Ids, has_to \in BOOLEAN :
          MonitorCommand(sender, mc, w, has_to) /\ Watch
    \/ \E sender \in Ids, mc \in MainConfigs, w \in Ids :
          UnmonitorCommand(sender, mc, w) /\ Watch
    \/ \E sender \in Ids, mc \in MainConfigs, ch \in {"sms", "pigeon"} :
          ChannelCommand(sender, mc, ch) /\ Watch
    \/ \E sender \in Ids, mc \in MainConfigs, type \in {"title", "bogus"} :
          TemplateCommand(sender, mc, type) /\ Watch

SpecAdmin == Init /\ [][NextAdmin]_vars

\* The poll loop and the callbacks, the reload command and the restart.
NextLifecycle ==
    \/ TickEarly /\ Silent
    \/ \E w \in Ids : LogHeartbeatFailed(w) /\ Silent
    \/ \E t \in Tasks \ orphan, o \in Outcomes : CallbackPost(t, o) /\ Silent
    \/ \E t \in Tasks : CallbackWake(t) /\ Silent
    \/ \E r \in PollResponses :
          PollGet(Classify(r)) /\ polled' = r /\ reply' = NoReply /\ LagStep
             /\ UNCHANGED <<delivered, trace, plugin, seen>>
    \/ \E o \in Outcomes : PollPost(o) /\ Silent
    \/ PollWake /\ Silent
    \/ PollSleep /\ Silent
    \/ \E sender \in Ids, mc \in MainConfigs, file \in ConfigFiles :
          ReloadCommand(sender, mc, file) /\ Watch
    \/ \E file \in ConfigFiles : Restart(file) /\ Watch
    \/ \E t \in Tasks, o \in Outcomes : OrphanPost(t, o) /\ Watch

SpecLifecycle == Init /\ [][NextLifecycle]_vars

\* The configuration files of every kind, the evidence log and the restart,
\* with the API healthy.
NextConfig ==
    \/ TickEarly /\ Silent
    \/ \E w \in Ids : LogHeartbeatFailed(w) /\ TraceCall(w)
    \/ \E t \in Tasks \ orphan, o \in Outcomes : CallbackPost(t, o) /\ Silent
    \/ \E t \in Tasks : CallbackWake(t) /\ Silent
    \/ \E r \in {"healthy", "exception"} : PollGet(r) /\ Silent
    \/ PollSleep /\ Silent
    \/ \E sender \in Ids, mc \in MainConfigs, file \in ConfigFiles \cup BadConfigFiles :
          /\ ReloadCommand(sender, mc, file)
          /\ Loaded(IF reply'.kind = "reloaded" THEN file ELSE seen.file)
    \/ \E file \in ConfigFiles \cup BadConfigFiles : Restart(file) /\ Loaded(file)
    \/ \E t \in Tasks, o \in Outcomes : OrphanPost(t, o) /\ Watch
    \/ \E w \in Ids : StderrLine(w) /\ Len(heartbeat_errors) < MaxKept /\ Quiet

SpecConfig == Init /\ [][NextConfig]_vars

\* The message m that capture_error_messages has just been given (NoMessage:
\* the step is no message).
Heard(m) ==
    /\ seen' = [seen EXCEPT !.msg = m]
    /\ polled' = NoResponse
    /\ LagStep
    /\ UNCHANGED <<delivered, trace>>

Hush(m) == Heard(m) /\ reply' = NoReply /\ UNCHANGED plugin

\* The signal sources with the add and the remove command.
NextLoop ==
    \/ LogFetchFailed /\ Hush(NoMessage)
    \/ \E t \in Tasks, o \in Outcomes : CallbackPost(t, o) /\ Hush(NoMessage)
    \/ \E t \in Tasks : CallbackWake(t) /\ Hush(NoMessage)
    \/ \E r \in PollResults : PollGet(r) /\ Hush(NoMessage)
    \/ \E o \in Outcomes : PollPost(o) /\ Hush(NoMessage)
    \/ PollWake /\ Hush(NoMessage)
    \/ PollSleep /\ Hush(NoMessage)
    \/ \E m \in Messages : CaptureMessage(m) /\ Hush(m)
    \/ \E o \in Outcomes : CapturePost(o) /\ Hush(NoMessage)
    \/ CaptureWake /\ Hush(NoMessage)
    \/ \E sender \in Ids, mc \in MainConfigs, w \in Ids, has_to \in BOOLEAN :
          MonitorCommand(sender, mc, w, has_to) /\ Heard(NoMessage)
    \/ \E sender \in Ids, mc \in MainConfigs, w \in Ids :
          UnmonitorCommand(sender, mc, w) /\ Heard(NoMessage)

SpecLoop == Init /\ [][NextLoop]_vars

\* The clock, as far as the replay of the evidence log is followed.
TickCheck == Tick /\ now' <= MaxCheckTime

\* _check_loop, the evidence log and its writer.
NextCheck ==
    \/ TickCheck /\ Silent
    \/ CheckLoopStart /\ Quiet
    \/ TextMessage /\ Quiet
    \/ StderrLine("wxid_a") /\ Len(heartbeat_errors) < MaxLines /\ Quiet
    \/ CheckPass /\ Quiet
    \/ \E r \in {"true", "false", "raise"} : CheckProbe(r) /\ Quiet
    \/ \E o \in Outcomes : CheckPost(o) /\ Quiet
    \/ CheckWake /\ Quiet

SpecCheck == Init /\ [][NextCheck]_vars

(***************************************************************************)
(* What a step did, read off the state before and after it.                *)
(***************************************************************************)
RecordOf(fc, w) == IF w \in DOMAIN fc THEN fc[w] ELSE <<>>

\* A callback recorded a failure for w.
FailureRecorded(w) ==
    /\ RecordOf(failure_count', w) # <<>>
    /\ RecordOf(failure_count', w) # RecordOf(failure_count, w)

\* The entries of a record no older than the window at time t.
CountRecent(rec, t) == Cardinality({i \in DOMAIN rec : t - rec[i] <= 300})

\* A callback, the poll loop or the message handler started a delivery for w.
CallbackStarts(w) ==
    \E t \in Tasks : cb[t].pc = "free" /\ cb'[t].pc = "send" /\ cb'[t].wxid = w

PollStarts(w) ==
    /\ api'.pc = "send" /\ api'.wxid = w
    /\ ~(api.pc = "send" /\ api.wxid = w)

CaptureStarts(w) ==
    /\ cap'.pc = "send" /\ cap'.wxid = w
    /\ ~(cap.pc = "send" /\ cap.block = cap'.block)

DeliveryStarts(w) == CallbackStarts(w) \/ PollStarts(w) \/ CaptureStarts(w)

\* A callback's delivery for w returned success.
CallbackSucceeds(t, w) ==
    cb[t].pc = "send" /\ cb[t].wxid = w /\ cb'[t].pc = "free" /\ accepted' = w

LastNotifiedWritten(w) ==
    /\ w \in DOMAIN last_notification_time'
    /\ (w \in DOMAIN last_notification_time =>
            last_notification_time'[w] # last_notification_time[w])

(***************************************************************************)
(* C1: no two notifications for the same wxid are accepted less than the   *)
(* minimum resend interval (3600 s) apart, whatever the interleaving of    *)
(* the callbacks, the poll loop and the message handler.                   *)
(***************************************************************************)
C1_MinResendGap ==
    [][\A w \in Ids :
          (accepted' = w /\ w \in DOMAIN delivered) => now - delivered[w] >= 3600]_vars

(***************************************************************************)
(* C2: while a failure callback is suspended in its delivery call for a    *)
(* wxid, no other callback and no pass of the poll loop passes the         *)
(* resend-interval check and starts a second delivery for that wxid.       *)
(***************************************************************************)
C2_GateIsAtomic ==
    [][\A t \in Tasks :
          cb[t].pc = "send" =>
              ~CallbackStarts(cb[t].wxid) /\ ~PollStarts(cb[t].wxid)]_vars

(***************************************************************************)
(* C3: a callback starts a delivery for a monitored wxid exactly when, the *)
(* failure recorded and the record pruned, the record holds at least       *)
(* heartbeat_threshold entries and either no last-notified time is         *)
(* recorded or it lies at least 3600 s back; and a callback starts a       *)
(* delivery in no other step.                                              *)
(***************************************************************************)
C3_SendDecision ==
    [][\A w \in Ids :
          CallbackStarts(w) <=>
              /\ w \in DOMAIN users
              /\ FailureRecorded(w)
              /\ CountRecent(RecordOf(failure_count', w), now) >= heartbeat_threshold
              /\ (w \notin DOMAIN last_notification_time
                    \/ now - last_notification_time[w] >= 3600)]_vars

\* A callback is sending because the last notification lies 3600 s back.
C3_Witness ==
    \E t \in Tasks :
        /\ cb[t].pc = "send"
        /\ cb[t].wxid \in DOMAIN last_notification_time
        /\ cb[t].current_time - last_notification_time[cb[t].wxid] >= 3600

(***************************************************************************)
(* C4: no signal source starts a delivery for a wxid whose failure count   *)
(* within the window is below heartbeat_threshold.                         *)
(***************************************************************************)
C4_ThresholdBeforeDelivery ==
    [][\A w \in Ids :
          DeliveryStarts(w) =>
              CountRecent(RecordOf(failure_count', w), now) >= heartbeat_threshold]_vars

(***************************************************************************)
(* C5: when a callback checks the threshold, the record is over the        *)
(* threshold exactly when the failures recorded so far (the one just       *)
(* recorded included) that are no older than 300 s number at least         *)
(* heartbeat_threshold; failures that have aged out no longer count.       *)
(***************************************************************************)
C5_OverThreshold ==
    [][\A w \in Ids :
          FailureRecorded(w) =>
              (OverThreshold(failure_count', w) <=>
                  CountRecent(Append(RecordOf(failure_count, w), now), now)
                      >= heartbeat_threshold)]_vars

\* A callback that found the record over the threshold is still sending, no
\* delivery has reset the record since, and the failure just recorded is the
\* only one left: the others have aged out.
C5_Witness ==
    \E t \in Tasks :
        /\ cb[t].pc = "send"
        /\ cb[t].wxid \notin DOMAIN last_notification_time
        /\ now - cb[t].current_time > 300
        /\ RecordOf(failure_count, cb[t].wxid) = <<now>>

(***************************************************************************)
(* C6: recording a failure appends exactly one timestamp, the current      *)
(* time, and removes exactly the entries older than 300 s; the record is   *)
(* then in chronological order with no entry older than 300 s.             *)
(***************************************************************************)
C6_RecordFailure ==
    [][\A w \in Ids :
          FailureRecorded(w) =>
              LET old == RecordOf(failure_count, w)
                  new == RecordOf(failure_count', w)
                  k == CountRecent(old, now)
              IN /\ Len(new) = k + 1
                 /\ new[Len(new)] = now
                 /\ SubSeq(new, 1, k) = SubSeq(old, Len(old) - k + 1, Len(old))
                 /\ \A i \in DOMAIN new : now - new[i] <= 300
                 /\ \A i, j \in DOMAIN new : i < j => new[i] <= new[j]]_vars

\* A failure has just been recorded at a time past the first window; the
\* record is in order and its older entry, exactly 300 s old, has been kept.
C6_Witness ==
    \E w \in Ids :
        /\ now >= 600
        /\ RecordOf(failure_count, w) = <<now - 300, now>>

(***************************************************************************)
(* C7: a failure signal for a wxid that is not monitored changes no        *)
(* failure record and no last-notified time and starts no delivery for     *)
(* it, in the callback, in _process_heartbeat_failure and in the message   *)
(* handler.                                                                *)
(***************************************************************************)
C7_ForeignIgnored ==
    [][\A w \in Ids \ DOMAIN users :
          /\ ~DeliveryStarts(w)
          /\ ~FailureRecorded(w)
          /\ RecordOf(failure_count', w) = RecordOf(failure_count, w)
          /\ ~LastNotifiedWritten(w)]_vars

\* The message handler has passed its checks of a message naming a wxid that
\* is not monitored and is at its last check, for another wxid.
C7_Witness ==
    /\ cap.pc = "send"
    /\ cap.block = 5
    /\ cap.msg.marker # "none"
    /\ cap.msg.cw # NoWxid
    /\ cap.msg.cw \notin DOMAIN users
    /\ cap.msg.cw \notin DOMAIN failure_count

(***************************************************************************)
(* C8: a successful delivery of a callback sets the wxid's last-notified   *)
(* time and empties its failure record; a step adds at most one entry to   *)
(* a record, and a callback starts a delivery only with                    *)
(* heartbeat_threshold entries in it, so heartbeat_threshold failures must *)
(* be recorded after the reset before the next delivery starts.            *)
(***************************************************************************)
C8_ResetOnSuccess ==
    [][\A w \in Ids :
          /\ \A t \in Tasks :
                CallbackSucceeds(t, w) =>
                    /\ w \in DOMAIN last_notification_time'
                    /\ last_notification_time'[w] = cb[t].current_time
                    /\ w \in DOMAIN failure_count'
                    /\ failure_count'[w] = <<>>
          /\ Len(RecordOf(failure_count', w)) <= Len(RecordOf(failure_count, w)) + 1
          /\ CallbackStarts(w) =>
                Len(RecordOf(failure_count', w)) >= heartbeat_threshold]_vars

\* A delivery has just been accepted, the record is there and empty (only the
\* reset leaves it so) and the last-notified time is the current time.
C8_Witness ==
    \E w \in Ids :
        /\ accepted = w
        /\ w \in DOMAIN failure_count
        /\ failure_count[w] = <<>>
        /\ w \in DOMAIN last_notification_time
        /\ last_notification_time[w] = now
        /\ \A t \in Tasks : cb[t].pc = "free"

(***************************************************************************)
(* C9: a wxid's last-notified time is written only in a step in which a    *)
(* delivery for that wxid succeeded.                                       *)
(***************************************************************************)
C9_LastNotifiedOnlyOnSuccess ==
    [][\A w \in Ids : LastNotifiedWritten(w) => accepted' = w]_vars

(***************************************************************************)
(* C10: a delivery call that gets an auth-invalid response makes no        *)
(* further attempt and returns failure (one attempt in all when it is the  *)
(* first response); a call all of whose responses are generic failures or  *)
(* transport exceptions makes exactly retry_times attempts, sleeps once    *)
(* between two attempts and not after the last, and returns failure.       *)
(***************************************************************************)
Responses(log) == SelectSeq(log, LAMBDA e : e # "wait")

C10_RetryPolicy ==
    trace.returned =>
        LET log == trace.log
            resp == Responses(log)
        IN /\ \A i \in DOMAIN log :
                 log[i] = "auth" => i = Len(log) /\ ~trace.result
           /\ (log # <<>> /\ log[1] = "auth") => Len(resp) = 1
           /\ (\A i \in DOMAIN resp : resp[i] \in {"fail", "exc"}) =>
                 /\ ~trace.result
                 /\ Len(resp) = retry_times
                 /\ Len(log) = 2 * retry_times - 1
                 /\ \A i \in DOMAIN log : (log[i] = "wait") <=> (i % 2 = 0)

\* A call that failed on a generic failure, a transport exception and a generic
\* failure again.
C10_Witness ==
    /\ trace.returned
    /\ trace.log = <<"fail", "wait", "exc", "wait", "fail">>
    /\ ~trace.result

(***************************************************************************)
(* C11: a delivery call returns success exactly when an attempt got the    *)
(* response with code 200, and that attempt is its last; the test message, *)
(* with its one attempt, is reported as sent exactly when the response had *)
(* code 200.                                                               *)
(***************************************************************************)
C11_SuccessIffCode200 ==
    /\ trace.returned =>
          /\ trace.result <=> (\E i \in DOMAIN trace.log : trace.log[i] = "ok")
          /\ \A i \in DOMAIN trace.log : trace.log[i] = "ok" => i = Len(trace.log)
    /\ reply.kind \in {"test_ok", "test_failed"} =>
          (reply.kind = "test_ok" <=> reply.o = "ok")

\* A delivery call has succeeded on its second attempt, and a test message
\* that got the auth-invalid response has been reported as not sent.
C11_Witness ==
    /\ trace.returned
    /\ trace.log = <<"fail", "wait", "ok">>
    /\ trace.result
    /\ reply.kind = "test_failed"
    /\ reply.o = "auth"

(***************************************************************************)
(* C12: the test command of an administrator starts the POST of the test   *)
(* message whatever the failure record and the last-notified time of the   *)
(* wxid, and neither the command nor the response to the POST changes a    *)
(* failure record, a last-notified time, offline_users or                  *)
(* notification_sent.                                                      *)
(***************************************************************************)
C12_TestIsObservational ==
    [][/\ (reply'.cmd = "test" /\ reply'.kind = "sending") =>
              /\ test'.pc = "post"
              /\ test'.wxid = current_wxid'
       /\ (reply'.cmd = "test" /\ enable /\ reply'.who.exists
              /\ reply'.who.sender \in reply'.who.admins) => reply'.kind = "sending"
       /\ (reply'.cmd = "test" \/ test' # test) =>
              UNCHANGED <<failure_count, last_notification_time, offline_users,
                          notification_sent>>]_vars

\* The test message of a wxid that has a failure on record and was notified
\* less than 3600 s ago has been sent and has failed.
C12_Witness ==
    /\ reply.kind = "test_failed"
    /\ reply.wxid \in DOMAIN last_notification_time
    /\ now - last_notification_time[reply.wxid] < 3600
    /\ RecordOf(failure_count, reply.wxid) # <<>>

(***************************************************************************)
(* C13: a command whose sender is not in the admins list of                *)
(* main_config.toml, or that comes when the file is not there, is answered *)
(* with the rejection when the plugin is enabled, and changes nothing of   *)
(* the plugin's state.                                                     *)
(***************************************************************************)
Cmds == {"test", "set_wxid", "reload", "status", "heartbeat", "monitor", "unmonitor",
         "channel", "template"}

C14_PollClassification ==
    [][polled' # NoResponse =>
          LET failed == /\ ~polled'.exc
                        /\ \/ polled'.status # 200
                           \/ polled'.body \notin {<<"o", "k">>, <<" ", "O", "K", "\n">>}
          IN /\ (\E w \in Ids : PollStarts(w)) => failed
             /\ (failed /\ \E w \in DOMAIN users :
                               \/ w \notin DOMAIN last_notification_time
                               \/ now - last_notification_time[w] >= 3600)
                   => \E w \in Ids : PollStarts(w)
             /\ ~failed => api'.pc = "sleep"
             /\ UNCHANGED <<failure_count, last_notification_time, cb, config>>]_vars

\* The poll got status 200 and the body " OK\n" with a wxid to notify, and
\* sleeps.
C14_Witness ==
    /\ polled = [exc |-> FALSE, status |-> 200, body |-> <<" ", "O", "K", "\n">>]
    /\ api.pc = "sleep"
    /\ \E w \in DOMAIN users : w \notin DOMAIN last_notification_time

(***************************************************************************)
(* C15: a step in which no delivery for a wxid succeeds and no time        *)
(* passes leaves the resend-interval check of that wxid as it was.         *)
(***************************************************************************)
C15_DecisionIdempotent ==
    [][\A w \in Ids :
          (accepted' # w /\ now' = now) =>
              ((w \notin DOMAIN last_notification_time'
                   \/ now - last_notification_time'[w] >= 3600)
                <=> (w \notin DOMAIN last_notification_time
                       \/ now - last_notification_time[w] >= 3600))]_vars

(***************************************************************************)
(* C16: a callback that finds the threshold reached less than 3600 s after *)
(* a notification for the wxid was accepted starts no delivery.            *)
(***************************************************************************)
C16_NoResendWithinInterval ==
    [][\A w \in Ids :
          (CallbackStarts(w) /\ w \in DOMAIN delivered) =>
              now - delivered[w] >= 3600]_vars

(***************************************************************************)
(* C17: after a reload the poll loop is running exactly when the plugin is *)
(* enabled.                                                                *)
(***************************************************************************)
C17_PollFollowsReload ==
    [][reply'.kind = "reloaded" => (enable' <=> api'.pc # "stopped")]_vars

(***************************************************************************)
(* C18: the poll loop does not go on for more than one sleep interval      *)
(* (2 s) after enable has become false.                                    *)
(***************************************************************************)
C18_PromptStop == lag.since <= 2

(***************************************************************************)
(* C19: the successful delivery of a callback is recorded in the           *)
(* last-notified times that the running _check_api_heartbeat consults,     *)
(* also when the callback was started before the poll loop ended and       *)
(* monitoring has started again since.                                     *)
(***************************************************************************)
C19_InFlightRecorded ==
    [][\A t \in Tasks, w \in Ids :
          (CallbackSucceeds(t, w) /\ api.pc # "stopped") =>
              /\ w \in DOMAIN last_notification_time'
              /\ last_notification_time'[w] >= cb[t].current_time]_vars

(***************************************************************************)
(* C20: after the remove command has removed a wxid, there is no failure   *)
(* record, no last-notified time and no offline flag of that wxid.         *)
(***************************************************************************)
C20_RemovedIsForgotten ==
    [][reply'.kind = "removed" =>
          /\ reply'.wxid \notin DOMAIN users'
          /\ reply'.wxid \notin DOMAIN failure_count'
          /\ reply'.wxid \notin DOMAIN last_notification_time'
          /\ reply'.wxid \notin DOMAIN notification_sent'
          /\ reply'.wxid \notin offline_users']_vars

(***************************************************************************)
(* C23: a wxid whose failure record holds heartbeat_threshold entries or   *)
(* more is in offline_users.                                               *)
(***************************************************************************)
C23_OfflineAtThreshold ==
    \A w \in DOMAIN failure_count :
        Len(failure_count[w]) >= heartbeat_threshold => w \in offline_users

(***************************************************************************)
(* C26: the message handler, suspended in the delivery that one of its     *)
(* checks started for a wxid, starts no second delivery for that wxid from *)
(* a later check of the same message.                                      *)
(***************************************************************************)
C26_OneSignalPerMessage ==
    [][\A w \in Ids :
          (cap.pc = "send" /\ cap.wxid = w) =>
              ~(cap'.pc = "send" /\ cap'.wxid = w /\ cap'.msg = cap.msg
                  /\ cap'.block > cap.block)]_vars

(***************************************************************************)
(* C22: the add command of an administrator, with a delivery target, for a *)
(* wxid that is not monitored puts the wxid into users with that target,   *)
(* and for a wxid that is monitored leaves users, the stored target        *)
(* included, as it was; the remove command of an administrator for a       *)
(* monitored wxid takes it out of users.                                   *)
(***************************************************************************)
Authorized(r) == r.who.exists /\ r.who.sender \in r.who.admins

CallbackCalls(w) ==
    /\ w \in DOMAIN users
    /\ FailureRecorded(w)
    /\ CountRecent(RecordOf(failure_count', w), now) >= heartbeat_threshold
    /\ (w \notin DOMAIN last_notification_time
          \/ now - last_notification_time[w] >= 3600)

C24_BadConfigDisables ==
    [][/\ (~seen'.file.exists \/ ~seen'.file.readable \/ seen'.file.token = "")
             => ~enable'
       /\ \A w \in Ids :
             (pushplus_token = "" /\ CallbackCalls(w)) =>
                 /\ cb' = cb
                 /\ trace'.returned
                 /\ trace'.log = <<>>
                 /\ ~trace'.result]_vars

\* The config.toml loaded last is enabled and has no token, the plugin is
\* disabled, and a callback's delivery call has returned failure without an
\* attempt.
C24_Witness ==
    /\ seen.file.exists /\ seen.file.readable /\ seen.file.enable
    /\ seen.file.token = ""
    /\ ~enable
    /\ pushplus_token = ""
    /\ trace.returned /\ trace.log = <<>> /\ ~trace.result
    /\ \E w \in DOMAIN users : Len(RecordOf(failure_count, w)) >= heartbeat_threshold

(***************************************************************************)
(* C30: heartbeat_errors.txt is append-only: its lines before a step are   *)
(* the first of its lines after the step.                                  *)
(***************************************************************************)
IsPrefix(a, b) == Len(a) <= Len(b) /\ SubSeq(b, 1, Len(a)) = a

C30_AppendOnly == [][IsPrefix(heartbeat_errors, heartbeat_errors')]_vars

(***************************************************************************)
(* C21: when a pass of the poll loop over the monitored wxids ends, the    *)
(* loop goes to its sleep, and every wxid that was monitored when the pass *)
(* began and still is has been processed or was notified less than 3600 s  *)
(* before the pass, whatever happened while the pass was suspended in a    *)
(* delivery.                                                               *)
(***************************************************************************)
C21_PassIsolated ==
    [][(api.pc = "send" /\ api'.pc # "send") =>
          /\ api'.pc = "sleep"
          /\ \A w \in (DOMAIN users') \cap api.keys :
                /\ w \in DOMAIN last_notification_time'
                /\ api.current_time - last_notification_time'[w] < 3600]_vars

(***************************************************************************)
(* C25: a system message with the heartbeat-failure marker and no wxid in  *)
(* it, received while exactly one wxid is monitored, starts the failure    *)
(* processing of that wxid.                                                *)
(***************************************************************************)
C25_FallbackTarget ==
    [][(seen'.msg = [NoMessage EXCEPT !.kind = "sys", !.marker = "cn"]
          /\ Cardinality(DOMAIN users) = 1) =>
          \E w \in DOMAIN users : cap'.pc = "send" /\ cap'.wxid = w]_vars

(***************************************************************************)
(* C27: a pass of _check_loop that finds no self.bot is skipped: the loop  *)
(* goes to its sleep, no delivery is started and no state of a wxid is     *)
(* changed.  A probe that returned false and a probe that raised start the *)
(* failure processing of the wxid probed, a probe that returned true       *)
(* starts none.                                                            *)
(***************************************************************************)
C27_ProbeStates ==
    [][/\ (chk.pc = "wait" /\ chk' # chk /\ enable /\ ~bot) =>
             /\ chk'.pc = "wait"
             /\ chk'.last = "skipped"
             /\ UNCHANGED <<failure_count, last_notification_time, offline_users,
                            notification_sent, config, cb, api, cap>>
       /\ (chk.pc = "probe" /\ chk' # chk) =>
             /\ (chk'.result \in {"false", "raise"} /\ chk.wxid \in DOMAIN users) =>
                   /\ chk'.pc = "send"
                   /\ chk'.site = "probe"
                   /\ chk'.wxid = chk.wxid
                   /\ chk'.snd.pc = "post"
             /\ chk'.result = "true" => chk'.pc # "send"]_vars

\* The delivery for a wxid whose probe raised is waiting between two
\* attempts.
C27_Witness ==
    /\ chk.pc = "send"
    /\ chk.site = "probe"
    /\ chk.result = "raise"
    /\ chk.wxid \in DOMAIN users
    /\ chk.snd.pc = "sleep"

(***************************************************************************)
(* C28: a line of heartbeat_errors.txt starts the failure processing of a  *)
(* wxid only if it is among the last 10 lines, holds a marker, was written *)
(* at most 300 s before the pass and names a monitored wxid; a pass all of *)
(* whose lines with a marker are older than 300 s starts no delivery from  *)
(* a line and changes no state of a wxid.                                  *)
(***************************************************************************)
C28_ReplayWindow ==
    [][/\ (chk'.pc = "send" /\ chk'.site = "line"
              /\ (chk.pc # "send" \/ chk.i # chk'.i)) =>
             LET l == chk'.lines[chk'.i]
             IN /\ l.marker
                /\ chk'.current_time - l.at <= 300
                /\ l.wxid \in DOMAIN users
                /\ chk.pc = "wait" =>
                      \E j \in DOMAIN heartbeat_errors :
                          /\ j > Len(heartbeat_errors) - 10
                          /\ heartbeat_errors[j] = l
       /\ (chk.pc = "wait" /\ chk' # chk /\ enable /\ bot
              /\ \A j \in DOMAIN heartbeat_errors :
                    heartbeat_errors[j].marker => now - heartbeat_errors[j].at > 300) =>
             /\ ~(chk'.pc = "send" /\ chk'.site = "line")
             /\ UNCHANGED <<failure_count, last_notification_time, offline_users,
                            notification_sent, config>>]_vars

\* A pass at time 600 has gone through the last 10 of 11 lines, of which
\* those with a marker were written at time 0 and name a monitored wxid, and
\* is at its probe.
C28_Witness ==
    /\ chk.pc = "probe"
    /\ chk.current_time = 600
    /\ chk.examined = 10
    /\ Len(heartbeat_errors) = 11
    /\ \A j \in DOMAIN heartbeat_errors :
          heartbeat_errors[j].marker =>
              heartbeat_errors[j].at = 0 /\ heartbeat_errors[j].wxid \in DOMAIN users

(***************************************************************************)
(* C29: a pass that meets a line with a marker whose first word is no      *)
(* timestamp starts no delivery from a line, changes no state of a wxid,   *)
(* goes through all of the last lines and goes on to the check of the      *)
(* monitored wxids.                                                        *)
(***************************************************************************)
C29_BadLineDropped ==
    [][(chk.pc = "wait" /\ chk' # chk /\ enable /\ bot
          /\ \E j \in DOMAIN heartbeat_errors :
                /\ j > Len(heartbeat_errors) - 10
                /\ heartbeat_errors[j].marker
                /\ Head(heartbeat_errors[j].lead) # "Y/m/d") =>
          /\ ~(chk'.pc = "send" /\ chk'.site = "line")
          /\ UNCHANGED <<failure_count, last_notification_time, offline_users,
                         notification_sent, config>>
          /\ chk'.examined = IF Len(heartbeat_errors) > 10 THEN 10
                              ELSE Len(heartbeat_errors)
          /\ (DOMAIN users) \ offline_users # {} =>
                /\ chk'.pc = "probe"
                /\ chk'.wxid \in DOMAIN users]_vars

\* A pass has met a line with a marker, written less than 300 s before, that
\* is not the last line, and is at its probe.
C29_Witness ==
    /\ chk.pc = "probe"
    /\ chk.examined = Len(heartbeat_errors)
    /\ Len(heartbeat_errors) >= 3
    /\ heartbeat_errors[2].marker
    /\ chk.current_time - heartbeat_errors[2].at < 300
(***************************************************************************)
(* The delivery calls of the callbacks under every retry_times a           *)
(* config.toml can hold, zero and a negative number among them.  The POST  *)
(* of an attempt ends with a response or with an exception (the session's  *)
(* total timeout raises one when no response comes), and the sleep         *)
(* between two attempts ends: both steps are taken when they stay          *)
(* possible.                                                               *)
(***************************************************************************)
RetryValues == -1 .. retry_times

InitRetry == \E n \in RetryValues : Construct(n)

NextRetry ==
    \/ TickEarly /\ Keep
    \/ \E w \in Ids : LogHeartbeatFailed(w) /\ TraceCall(w)
    \/ \E t \in Tasks, o \in Outcomes : CallbackPost(t, o) /\ TracePost(t, o)
    \/ \E t \in Tasks : CallbackWake(t) /\ TraceWake(t)

SpecRetry ==
    /\ InitRetry
    /\ [][NextRetry]_vars
    /\ WF_vars(\E t \in Tasks, o \in Outcomes : CallbackPost(t, o) /\ TracePost(t, o))
    /\ WF_vars(\E t \in Tasks : CallbackWake(t) /\ TraceWake(t))

\* The attempts a delivery call may make.
Attempts == IF self_retry_times > 0 THEN self_retry_times ELSE 0

(***************************************************************************)
(* C31: every delivery call returns: a call in progress has made at most   *)
(* retry_times attempts, a call that returned has made at most retry_times *)
(* attempts, none and with the result False when retry_times <= 0, and a   *)
(* callback that is in its delivery call is eventually out of it.          *)
(***************************************************************************)
C31_DeliveryReturns ==
    /\ [](/\ \A t \in Tasks : Len(Responses(trace.cur[t])) <= Attempts
          /\ trace.returned =>
                /\ Len(Responses(trace.log)) <= Attempts
                /\ self_retry_times <= 0 => trace.log = <<>> /\ ~trace.result)
    /\ \A t \in Tasks : (cb[t].pc = "send") ~> (cb[t].pc = "free")

\* With retry_times = 2 a call has returned after its two attempts, and
\* the callback is out of it.
C31_Witness ==
    /\ self_retry_times = 2
    /\ trace.returned
    /\ trace.log = <<"exc", "wait", "fail">>
    /\ \A t \in Tasks : cb[t].pc = "free"

(***************************************************************************)
(* The callbacks next to the poll loop, with the wxid whose callback's     *)
(* delivery call failed last.                                              *)
(***************************************************************************)
FailedPost(t, o) ==
    LET s == PostStep(cb[t].snd, o)
    IN /\ trace' = IF s.pc = "ret" /\ ~s.result
                   THEN [trace EXCEPT !.failed = cb[t].wxid, !.again = NoWxid]
                   ELSE [trace EXCEPT !.again = NoWxid]
       /\ UNCHANGED <<delivered, plugin, observed>>

FailedEvent(w) ==
    /\ trace' = IF w \in DOMAIN users /\ w = trace.failed
                THEN [trace EXCEPT !.failed = NoWxid,
                                   !.again = IF cb' # cb THEN w ELSE NoWxid]
                ELSE [trace EXCEPT !.again = NoWxid]
    /\ UNCHANGED <<delivered, plugin, observed>>

NextFailed ==
    \/ Tick /\ Keep
    \/ \E w \in Ids : LogHeartbeatFailed(w) /\ FailedEvent(w)
    \/ \E t \in Tasks, o \in Outcomes : CallbackPost(t, o) /\ FailedPost(t, o)
    \/ \E t \in Tasks : CallbackWake(t) /\ Keep
    \/ \E r \in PollResults : PollGet(r) /\ Keep
    \/ \E o \in Outcomes : PollPost(o) /\ Keep
    \/ PollWake /\ Keep
    \/ PollSleep /\ Keep

SpecFailed == Init /\ [][NextFailed]_vars

\* A callback's delivery call returned False.
CallbackFails(t) == cb[t].pc = "send" /\ cb'[t].pc = "free" /\ accepted' = NoWxid

\* The callback's gate on the last-notified time of w.
GateOpen(w) ==
    \/ w \notin DOMAIN last_notification_time
    \/ now - last_notification_time[w] >= 3600

C33_NeverOffline ==
    /\ offline_users = {}
    /\ notification_sent = EmptyDict
    /\ chk.site # "remind"
    /\ chk.pc = "send" => chk.site \in {"line", "probe"}

\* A pass has probed the monitored wxid_a, the probe has failed and the
\* pass is in the delivery call that follows; nothing is in offline_users.
C33_Witness ==
    /\ chk.pc = "send"
    /\ chk.site = "probe"
    /\ chk.wxid = "wxid_a"
    /\ "wxid_a" \in DOMAIN users
    /\ offline_users = {}

(***************************************************************************)
(* C34: while self.enable is false no step sets it to true, and a command  *)
(* handled while it is false, sms_reload included, gets no answer and      *)
(* writes nothing of the plugin.                                           *)
(***************************************************************************)
C34_DisabledAbsorbing ==
    [][~enable =>
          /\ ~enable'
          /\ commands' # commands =>
                /\ reply'.kind = "none"
                /\ UNCHANGED <<users, current_wxid, pushplus_channel, title_template,
                               pushplus_token, offline_users, check_task, test>>]_vars

\* An administrator's sms_reload was handled while the plugin was disabled
\* by an earlier reload: it got no answer and the plugin is still disabled.
C34_Witness ==
    /\ ~enable
    /\ commands = 2
    /\ reply.cmd = "reload"
    /\ reply.kind = "none"
    /\ reply.who.exists
    /\ reply.who.sender \in reply.who.admins

(***************************************************************************)
(* The handlers that write the primary wxid and the monitored set:         *)
(* capture_bot_id and the commands sms_test, sms_set_wxid, sms_reload,     *)
(* sms_monitor and sms_unmonitor, with the responses to their POSTs.       *)
(***************************************************************************)
NextPrimary ==
    \/ \E sender \in Ids : CaptureBotId(sender) /\ Watch
    \/ \E sender \in Ids, mc \in MainConfigs : TestCommand(sender, mc) /\ Watch
    \/ \E sender \in Ids, mc \in MainConfigs, w \in Ids :
          SetWxidCommand(sender, mc, w) /\ Watch
    \/ \E o \in Outcomes : TestPost(o) /\ Watch
    \/ \E sender \in Ids, mc \in MainConfigs, file \in ConfigFiles \cup HalfReadFiles :
          ReloadCommand(sender, mc, file) /\ Watch
    \/ \E sender \in Ids, mc \in MainConfigs, w \in Ids, has_to \in BOOLEAN :
          MonitorCommand(sender, mc, w, has_to) /\ Watch
    \/ \E sender \in Ids, mc \in MainConfigs, w \in Ids :
          UnmonitorCommand(sender, mc, w) /\ Watch

SpecPrimary == Init /\ [][NextPrimary]_vars

\* The monitored set that holds the primary wxid w alone, or nothing.
OnlyPrimary(w) == IF w = NoWxid THEN {} ELSE {w}

(***************************************************************************)
(* C35: after a reload the monitored set holds the configured primary wxid *)
(* and nothing else, and is empty when none is configured: a wxid added by *)
(* sms_monitor before is monitored no more.                                *)
(***************************************************************************)
C35_ReloadReplacesUsers ==
    [][reply'.kind = "reloaded" => DOMAIN users' = OnlyPrimary(current_wxid')]_vars

(***************************************************************************)
(* C36: after sms_set_wxid w of an administrator the primary wxid is w, w  *)
(* is monitored and the primary wxid of before, when it is another, is     *)
(* not; and every step but a removal by sms_unmonitor keeps a primary wxid *)
(* that is not empty in the monitored set.                                 *)
(***************************************************************************)
PrimaryMonitored(cw, u) == cw # NoWxid => cw \in DOMAIN u

C36_PrimaryMonitored ==
    [][/\ (reply'.cmd = "set_wxid" /\ reply'.kind = "sending") =>
             /\ current_wxid' = reply'.wxid
             /\ reply'.wxid \in DOMAIN users'
             /\ current_wxid # reply'.wxid => current_wxid \notin DOMAIN users'
       /\ (reply'.kind # "removed" /\ PrimaryMonitored(current_wxid, users)) =>
             PrimaryMonitored(current_wxid', users')]_vars

(***************************************************************************)
(* stderr_monitor.py.  The host's stderr is piped into the process, which  *)
(* reads it line by line through sys.stdin, appends the lines that hold a  *)
(* marker to heartbeat_errors.txt and writes every line to sys.stderr.  A  *)
(* line on the pipe is a sequence of pieces of bytes: the marker, a wxid,  *)
(* or a byte that is no UTF-8.  sys.stdin decodes the bytes with the error *)
(* handler the interpreter gave it, "strict" or, under the C locale,       *)
(* "surrogateescape"; sys.stderr encodes with "backslashreplace".          *)
(***************************************************************************)
MaxInput == 3
MaxPieces == 2

Pieces == {"Heartbeat failed", "wxid_a", "0xFF"}

MonitorLines ==
    UNION {[1..n -> Pieces] : n \in 1..MaxPieces}

\* sys.stdin.readline(): the text of the line, or UnicodeDecodeError.
Decode(line, errors) ==
    IF errors = "strict" /\ \E i \in DOMAIN line : line[i] = "0xFF"
    THEN [raised |-> TRUE, text |-> <<>>]
    ELSE [raised |-> FALSE,
          text |-> [i \in DOMAIN line |-> IF line[i] = "0xFF" THEN "U+DCFF" ELSE line[i]]]

\* sys.stderr.write(line): the bytes written.
Encode(text) ==
    [i \in DOMAIN text |-> IF text[i] = "U+DCFF" THEN "\\udcff" ELSE text[i]]

\* "Heartbeat failed" in line
HasMarker(text) == \E i \in DOMAIN text : text[i] = "Heartbeat failed"

\* f.write of the line to heartbeat_errors.txt raises for a text with a
\* lone surrogate; the bare except swallows it.
Writable(text) == \A i \in DOMAIN text : text[i] # "U+DCFF"

MonitorFrame ==
    UNCHANGED <<now, config, failure_count, last_notification_time, cb, api, cap,
                callback_current_wxid, accepted, delivered, trace, pushplus_channel,
                title_template, offline_users, notification_sent, check_task, test,
                orphan, commands, pushplus_token, self_retry_times, bot, chk, observed>>

\* The process is started.
MonitorStart(e) ==
    /\ mon.pc = "none"
    /\ mon' = [mon EXCEPT !.pc = "read", !.errors = e]
    /\ UNCHANGED heartbeat_errors
    /\ MonitorFrame

\* The host writes a line to its stderr.
MonitorFeed(line) ==
    /\ ~mon.closed
    /\ Len(mon.given) < MaxInput
    /\ mon' = [mon EXCEPT !.stdin = Append(@, line), !.given = Append(@, line)]
    /\ UNCHANGED heartbeat_errors
    /\ MonitorFrame

\* The host closes its stderr.
MonitorClose ==
    /\ ~mon.closed
    /\ mon' = [mon EXCEPT !.closed = TRUE]
    /\ UNCHANGED heartbeat_errors
    /\ MonitorFrame

\* One turn of the loop; opened is whether heartbeat_errors.txt could be
\* opened for appending.
MonitorStep(opened) ==
    /\ mon.pc = "read"
    /\ mon.stdin # <<>> \/ mon.closed
    /\ IF mon.stdin = <<>>
       THEN /\ mon' = [mon EXCEPT !.pc = "done"]
            /\ UNCHANGED heartbeat_errors
       ELSE LET d == Decode(Head(mon.stdin), mon.errors)
            IN IF d.raised
               THEN /\ mon' = [mon EXCEPT !.pc = "crashed", !.stdin = Tail(@)]
                    /\ UNCHANGED heartbeat_errors
               ELSE /\ mon' = [mon EXCEPT !.stdin = Tail(@),
                                          !.stderr = Append(@, Encode(d.text))]
                    /\ heartbeat_errors' =
                          IF HasMarker(d.text) /\ opened /\ Writable(d.text)
                          THEN Append(heartbeat_errors,
                                      [lead |-> Lead, at |-> now, marker |-> TRUE,
                                       wxid |-> IF \E i \in DOMAIN d.text :
                                                      d.text[i] = "wxid_a"
                                                THEN "wxid_a" ELSE NoWxid])
                          ELSE heartbeat_errors
    /\ MonitorFrame

NextMonitor ==
    \/ \E e \in {"strict", "surrogateescape"} : MonitorStart(e)
    \/ \E line \in MonitorLines : MonitorFeed(line)
    \/ MonitorClose
    \/ \E opened \in BOOLEAN : MonitorStep(opened)

\* The process runs once started, and a turn of the loop ends: the sleep
\* at its end is 0.1 s.
SpecMonitor ==
    /\ Init
    /\ [][NextMonitor]_vars
    /\ WF_vars(\E e \in {"strict", "surrogateescape"} : MonitorStart(e))
    /\ WF_vars(\E opened \in BOOLEAN : MonitorStep(opened))

(***************************************************************************)
(* C37: what the monitor has written to sys.stderr is, line by line and in *)
(* order, what it has read from the pipe, whether or not a line held a     *)
(* marker and whether or not the write to heartbeat_errors.txt failed;     *)
(* and once the pipe is closed the monitor ends, with every line written.  *)
(***************************************************************************)
C37_MonitorForwards ==
    /\ [](/\ IsPrefix(mon.stderr, mon.given)
          /\ mon.pc # "crashed"
          /\ mon.pc = "done" => mon.stderr = mon.given)
    /\ mon.closed ~> mon.pc = "done"

(***************************************************************************)
(* The log handler of _check_api_heartbeat from its registration to the    *)
(* end of the loop, by the loop test or by the cancellation of the task at *)
(* one of its awaits; an exception raised in the loop is caught in it.     *)
(***************************************************************************)
\* The task is cancelled while it waits for the GET, a delivery or the
\* sleep: CancelledError passes the except clauses, the finally clause runs.
PollCancel ==
    /\ api.pc \in {"get", "send", "sleep"}
    /\ api' = Exit(api)
    /\ accepted' = NoWxid
    /\ UNCHANGED <<now, config, failure_count, last_notification_time, cb, cap,
                   callback_current_wxid>>

\* The log line "Heartbeat failed for wxid w".
LogLine(w) == [NoMessage EXCEPT !.kind = "log", !.marker = "en", !.cw = w]

\* The line is logged while log_handler is not registered.
LogUnheard(w) ==
    /\ ~api.handler
    /\ accepted' = NoWxid
    /\ UNCHANGED <<now, config, failure_count, last_notification_time, cb, api, cap,
                   callback_current_wxid>>

NextHandler ==
    \/ \E w \in Ids : LogHeartbeatFailed(w) /\ Hush(NoMessage)
    \/ \E w \in Ids : LogUnheard(w) /\ Hush(LogLine(w))
    \/ \E t \in Tasks \ orphan, o \in Outcomes : CallbackPost(t, o) /\ Hush(NoMessage)
    \/ \E t \in Tasks : CallbackWake(t) /\ Hush(NoMessage)
    \/ \E r \in PollResults : PollGet(r) /\ Hush(NoMessage)
    \/ \E o \in Outcomes : PollPost(o) /\ Hush(NoMessage)
    \/ PollWake /\ Hush(NoMessage)
    \/ PollSleep /\ Hush(NoMessage)
    \/ PollCancel /\ Hush(NoMessage)
    \/ \E sender \in Ids, mc \in MainConfigs, file \in ConfigFiles :
          ReloadCommand(sender, mc, file) /\ Heard(NoMessage)
    \/ \E file \in ConfigFiles : Restart(file) /\ Heard(NoMessage)
    \/ \E t \in Tasks, o \in Outcomes : OrphanPost(t, o) /\ Heard(NoMessage)

SpecHandler == Init /\ [][NextHandler]_vars

(***************************************************************************)
(* C38: when the poll loop has ended, by its loop test or by cancellation, *)
(* log_handler is registered no more, and while the loop is ended no step  *)
(* records a failure or starts a callback's delivery call.                 *)
(***************************************************************************)
C38_HandlerRemoved ==
    [][/\ api'.pc = "stopped" => ~api'.handler
       /\ (api.pc = "stopped" /\ api'.pc = "stopped") =>
             \A w \in Ids : ~FailureRecorded(w) /\ ~CallbackStarts(w)]_vars

\* The loop has ended and the line "Heartbeat failed for wxid wxid_a" has
\* just been logged: wxid_a is monitored, its record holds two failures of
\* before and no callback is in a delivery call.
C38_Witness ==
    /\ api.pc = "stopped"
    /\ ~api.handler
    /\ seen.msg = LogLine("wxid_a")
    /\ "wxid_a" \in DOMAIN users
    /\ Len(RecordOf(failure_count, "wxid_a")) = heartbeat_threshold - 1
    /\ \A t \in Tasks : cb[t].pc = "free"

====
